---- MODULE Spec2Model ----
(***************************************************************************)
(* Model of the document indexing and retrieval core of ResearchHub-AI:    *)
(* backend/utils/vector_store.py (chunker, lazy initialisation, indexing,  *)
(* queries, delete) and the lexical scorer and hybrid search of            *)
(* backend/routers/papers.py.  The ChromaDB collection is the shared       *)
(* variable `store`; every call on it is one atomic step of the calling    *)
(* thread and may raise.                                                   *)
(***************************************************************************)
EXTENDS Integers, Sequences, FiniteSets, TLC

(***************************************************************************)
(* Python str.  A string is kept run-length encoded: a sequence of runs    *)
(* <<c, n>>, n >= 1 copies of the character c, adjacent runs of different  *)
(* characters, so that equal strings have equal encodings.  Positions are  *)
(* 0-based and slices half-open, as in Python.                             *)
(***************************************************************************)
Max(a, b) == IF a >= b THEN a ELSE b

Min(a, b) == IF a <= b THEN a ELSE b

SetMax(S) == CHOOSE x \in S : \A y \in S : y <= x

\* the characters str.strip() removes, among those the model's texts use
Whitespace == {" ", "\n"}

RECURSIVE StrLen(_)
\* len(s)
StrLen(s) == IF s = <<>> THEN 0 ELSE Head(s)[2] + StrLen(Tail(s))

RECURSIVE CharAt(_, _)
\* s[i], for 0 <= i < len(s)
CharAt(s, i) == IF i < Head(s)[2] THEN Head(s)[1] ELSE CharAt(Tail(s), i - Head(s)[2])

RECURSIVE Slice(_, _, _)
\* s[a:b] for 0 <= a; b beyond the end is clamped, a >= b gives ""
Slice(s, a, b) ==
    IF s = <<>> \/ b <= 0 \/ a >= b THEN <<>>
    ELSE LET n    == Head(s)[2]
             lo   == Min(a, n)
             hi   == Min(b, n)
             rest == Slice(Tail(s), Max(a - n, 0), b - n)
         IN  IF hi > lo THEN <<(<<Head(s)[1], hi - lo>>)>> \o rest ELSE rest

RECURSIVE LStrip(_)
LStrip(s) == IF s # <<>> /\ Head(s)[1] \in Whitespace THEN LStrip(Tail(s)) ELSE s

RECURSIVE RStrip(_)
RStrip(s) ==
    IF s # <<>> /\ s[Len(s)][1] \in Whitespace THEN RStrip(SubSeq(s, 1, Len(s) - 1)) ELSE s

\* s.strip()
Strip(s) == RStrip(LStrip(s))

\* s.rfind(c, lo, hi) for a single character c: the last position, or -1
RFindChar(s, c, lo, hi) ==
    LET found == {p \in lo .. (Min(hi, StrLen(s)) - 1) : CharAt(s, p) = c}
    IN  IF found = {} THEN -1 ELSE SetMax(found)

\* s.rfind(c1 + c2, lo, hi): the match must lie inside s[lo:hi]
RFindPair(s, c1, c2, lo, hi) ==
    LET found == {p \in lo .. (Min(hi, StrLen(s)) - 2) :
                      CharAt(s, p) = c1 /\ CharAt(s, p + 1) = c2}
    IN  IF found = {} THEN -1 ELSE SetMax(found)

(***************************************************************************)
(* vector_store.py: the chunker.                                           *)
(***************************************************************************)
CHUNK_SIZE == 500

CHUNK_OVERLAP == 50

\* the "last 100 chars of the chunk" searched for a sentence boundary
LOOKBACK == 100

\* a cut that waits for a sentence boundary: without one the chunk runs to the end
UncutChunkEnd(text, start) ==
    LET text_len == StrLen(text)
        end      == start + CHUNK_SIZE
    IN  IF end < text_len
        THEN LET search_start == Max(end - LOOKBACK, start)
                 last_period  == RFindPair(text, ".", " ", search_start, end)
                 last_newline == RFindChar(text, "\n", search_start, end)
                 break_point  == Max(last_period, last_newline)
             IN  IF break_point > start THEN break_point + 1 ELSE text_len
        ELSE end

\* one iteration of the while loop: the cut point `end` for a chunk at `start`
ChunkEnd(text, start) ==
    LET text_len == StrLen(text)
        end      == start + CHUNK_SIZE
    IN  IF end < text_len
        THEN LET search_start == Max(end - LOOKBACK, start)
                 last_period  == RFindPair(text, ".", " ", search_start, end)
                 last_newline == RFindChar(text, "\n", search_start, end)
                 break_point  == Max(last_period, last_newline)
             IN  IF break_point > start THEN break_point + 1 ELSE end
        ELSE end

\* the overlap added instead of subtracted
SkipOverlap(text, end) ==
    IF end < StrLen(text) THEN end + CHUNK_OVERLAP ELSE StrLen(text)

\* an overlap as long as the chunk
BackToStart(text, end) ==
    IF end < StrLen(text) THEN end - CHUNK_SIZE ELSE StrLen(text)

\* where the next iteration starts
NextStart(text, end) ==
    IF end < StrLen(text) THEN end - CHUNK_OVERLAP ELSE StrLen(text)

\* chunks.append(chunk) without the test
EmitAlways(chunks, chunk) == Append(chunks, chunk)

\* if chunk: chunks.append(chunk)
Emit(chunks, chunk) == IF chunk # <<>> THEN Append(chunks, chunk) ELSE chunks

RECURSIVE ChunkLoop(_, _, _)
\* the while loop; Len(chunks) >= 0 is always true and has the list built up to here
\* evaluated at every round, as the loop does, rather than at the return
ChunkLoop(text, start, chunks) ==
    IF start < StrLen(text) /\ Len(chunks) >= 0
    THEN LET end   == ChunkEnd(text, start)
             chunk == Strip(Slice(text, start, end))
         IN  ChunkLoop(text, NextStart(text, end), Emit(chunks, chunk))
    ELSE chunks

_chunk_text(text) ==
    IF text = <<>> \/ Strip(text) = <<>> THEN <<>> ELSE ChunkLoop(text, 0, <<>>)

(***************************************************************************)
(* Bounds of the model and the inputs the calls are drawn from.            *)
(***************************************************************************)
\* calls started in one behaviour
MaxCalls == 3

\* backend calls that raise in one behaviour
MaxFaults == 1

\* largest n_results a caller passes
MaxK == 2

\* the threads of the process: two callers, and a third for the request handlers
\* that run beside a caller and the preload thread
Threads == {"t1", "t2", "t3"}

\* the threads the calls of the core on its own start on
Callers == {"t1", "t2"}

Docs == {1, 2}

\* whitespace only: no chunk
TextBlank == <<(<<" ", 3>>)>>

\* 700 characters: chunks [0:500], [450:700]
TextTwo == <<(<<"b", 700>>)>>

\* 2000 characters: five chunks
TextFive == <<(<<"c", 2000>>)>>

Texts == {TextBlank, TextTwo, TextFive}

Queries == {<<(<<"b", 4>>)>>}

IdLists == {<<>>, <<2>>, <<1, 2>>}

NResults == {MaxK}

None == "None"

(***************************************************************************)
(* The ChromaDB collection.  A record is kept under its identifier         *)
(* f"paper_{paper_id}_chunk_{i}", modelled as the pair <<paper_id, i>>,    *)
(* and holds the chunk text and the metadata add_paper gives it.           *)
(***************************************************************************)
\* an id that leaves the paper out
ChunkIdWithoutPaper(paper_id, i) == <<0, i>>

ChunkId(paper_id, i) == <<paper_id, i>>

\* the ids in lexicographic order, the order ties of distance are broken in
IdBefore(a, b) == a[1] < b[1] \/ (a[1] = b[1] /\ a[2] < b[2])

WhereEq(paper_id) == [kind |-> "eq", ids |-> {paper_id}]

WhereIn(paper_ids) == [kind |-> "in", ids |-> {paper_ids[j] : j \in 1 .. Len(paper_ids)}]

\* where={"paper_id": x} and where={"paper_id": {"$in": xs}}
Matches(rec, where) == rec.metadata.paper_id \in where.ids

\* collection.count()
CollCount(st) == Cardinality(DOMAIN st)

\* collection.get(where=...)["ids"]
CollGet(st, where) == {id \in DOMAIN st : Matches(st[id], where)}

\* collection.delete(ids=...)
CollDelete(st, ids) == [id \in (DOMAIN st) \ ids |-> st[id]]

\* an upsert that leaves the records already there as they are
InsertOnly(st, recs) ==
    [id \in (DOMAIN st) \cup (DOMAIN recs) |-> IF id \in DOMAIN st THEN st[id] ELSE recs[id]]

\* collection.upsert(...): insert or overwrite by id
CollUpsert(st, recs) ==
    [id \in (DOMAIN st) \cup (DOMAIN recs) |-> IF id \in DOMAIN recs THEN recs[id] ELSE st[id]]

\* Stand-in for the cosine distance between the all-MiniLM-L6-v2 embeddings of a
\* query and a chunk, in hundredths (0 .. 200): a fixed function of the two texts.
EmbedDistance(query, document) ==
    IF query = <<>> \/ document = <<>> THEN 100
    ELSE IF Head(query)[1] = Head(document)[1]
         THEN Min(90, Max(0, StrLen(document) - StrLen(query)) \div 10)
         ELSE 100 + Min(100, StrLen(document) \div 10)

RECURSIVE Nearest(_, _, _, _)
\* the n nearest of the ids in `cand`, nearest first
Nearest(st, query, cand, n) ==
    IF n <= 0 \/ cand = {} THEN <<>>
    ELSE LET key(id) == EmbedDistance(query, st[id].document)
             best == CHOOSE id \in cand : \A o \in cand :
                        \/ o = id
                        \/ key(id) < key(o)
                        \/ (key(id) = key(o) /\ IdBefore(id, o))
         IN  <<best>> \o Nearest(st, query, cand \ {best}, n - 1)

\* collection.query(query_texts=[query], n_results=n, where=where): the ids of the
\* result rows, from which documents, metadatas and distances are read
CollQuery(st, query, n, where) == Nearest(st, query, CollGet(st, where), n)

\* results["documents"][0]
Documents(st, rows) == [j \in 1 .. Len(rows) |-> st[rows[j]].document]

\* every record of one paper
RecordsOf(st, paper_id) ==
    [id \in CollGet(st, WhereEq(paper_id)) |-> st[id]]

(***************************************************************************)
(* State.                                                                  *)
(***************************************************************************)
VARIABLES
    store,        \* the persistent collection: chunk id -> record
    _client,      \* vector_store._client
    _collection,  \* vector_store._collection
    created,      \* how many clients and collections have been constructed
    pc,           \* per thread: the statement it is at ("idle": in no call)
    call,         \* per thread: the function it runs and its arguments
    loc,          \* per thread: the locals of that function
    overlapped,   \* per thread: an add_paper of the same paper ran during the call
    returned,     \* the call that ended in the last step, if one did: its
                  \* arguments, how it ended and the value returned
    calls,        \* calls started so far
    faults,       \* backend calls that raised so far
    prev,         \* per paper: the last add_paper pass that returned, if undisturbed
    chunking,     \* a call of _chunk_text on its own: its argument and locals
    scoring,      \* a call of _keyword_score on its own: its arguments and result
    ranking       \* a hybrid search on its own: its inputs, locals and result

\* the variables of the pure functions, each checked on its own
purevars == <<chunking, scoring, ranking>>

\* the variables of the core
programvars == <<store, _client, _collection, created, pc, call, loc, overlapped,
                 returned, calls, faults, prev>>

vars == <<store, _client, _collection, created, pc, call, loc, overlapped, returned,
          calls, faults, prev, purevars>>

NoCall == [op |-> "none", paper_id |-> 0, text |-> <<>>, ids |-> <<>>, query |-> <<>>, n |-> 0]

NoLocals == [chunks |-> <<>>, ids |-> {}, available |-> 0, i |-> 0, map |-> <<>>,
             failed |-> FALSE]

\* prev[d] when the last call on paper d was not an undisturbed add_paper pass
NoPass == [text |-> <<>>, recs |-> <<>>, ret |-> -1]

\* prev[d] when the last add_paper pass on paper d ended with an exception
Interrupted == [text |-> <<>>, recs |-> <<>>, ret |-> -2]

NoReturn == [call |-> NoCall, how |-> "none", value |-> None, loc |-> NoLocals,
             failed |-> FALSE, overlapped |-> FALSE, before |-> NoPass]

AddCalls == {[NoCall EXCEPT !.op = "add_paper", !.paper_id = d, !.text = x] :
                d \in Docs, x \in Texts}

DeleteCalls == {[NoCall EXCEPT !.op = "delete_paper", !.paper_id = d] : d \in Docs}

QueryPaperCalls == {[NoCall EXCEPT !.op = "query_paper", !.paper_id = d, !.query = q, !.n = k] :
                       d \in Docs, q \in Queries, k \in NResults}

QueryPapersCalls == {[NoCall EXCEPT !.op = "query_papers", !.ids = l, !.query = q, !.n = k] :
                        l \in IdLists, q \in Queries, k \in NResults}

SearchCalls == {[NoCall EXCEPT !.op = "semantic_search_all", !.ids = l, !.query = q, !.n = k] :
                   l \in IdLists, q \in Queries, k \in NResults}

HasCalls == {[NoCall EXCEPT !.op = "has_embeddings", !.paper_id = d] : d \in Docs}

\* main._preload_vector_store
PreloadCalls == {[NoCall EXCEPT !.op = "preload"]}

CoreCalls == AddCalls \cup DeleteCalls \cup QueryPaperCalls \cup QueryPapersCalls
                \cup SearchCalls \cup HasCalls \cup PreloadCalls

ProgramInit ==
    /\ store = <<>>
    /\ _client = None
    /\ _collection = None
    /\ created = [client |-> 0, collection |-> 0]
    /\ pc = [t \in Threads |-> "idle"]
    /\ call = [t \in Threads |-> NoCall]
    /\ loc = [t \in Threads |-> NoLocals]
    /\ overlapped = [t \in Threads |-> FALSE]
    /\ returned = NoReturn
    /\ calls = 0
    /\ faults = 0
    /\ prev = [d \in Docs |-> NoPass]

\* no pure function is being followed
NotFollowed == [pc |-> "none"]

Init ==
    /\ ProgramInit
    /\ chunking = NotFollowed
    /\ scoring = NotFollowed
    /\ ranking = NotFollowed

InFlight(t) == pc[t] # "idle"

\* the outcomes of one backend call: it raises (TRUE) or not
Outcomes == IF faults < MaxFaults THEN {FALSE, TRUE} ELSE {FALSE}

Count(fail) == IF fail THEN faults + 1 ELSE faults

\* thread t moves to `label` with locals l
Goto(t, label, l) ==
    /\ pc' = [pc EXCEPT ![t] = label]
    /\ loc' = [loc EXCEPT ![t] = l]
    /\ returned' = NoReturn
    /\ UNCHANGED <<call, overlapped>>

\* the call of thread t ends: how is "returned" or "raised"
End(t, how, value, fail) ==
    /\ pc' = [pc EXCEPT ![t] = "idle"]
    /\ call' = [call EXCEPT ![t] = NoCall]
    /\ loc' = [loc EXCEPT ![t] = NoLocals]
    /\ overlapped' = [overlapped EXCEPT ![t] = FALSE]
    /\ returned' = [call |-> call[t], how |-> how, value |-> value, loc |-> loc[t],
                    failed |-> loc[t].failed \/ fail, overlapped |-> overlapped[t],
                    before |-> IF call[t].op = "add_paper"
                               THEN prev[call[t].paper_id] ELSE NoPass]

Return(t, value, fail) == End(t, "returned", value, fail)

Raise(t) == End(t, "raised", None, TRUE)

\* the first statement of a function after `collection = _get_collection()`
Body(op) ==
    CASE op = "add_paper"           -> "add_chunk"
      [] op = "delete_paper"        -> "del_get"
      [] op = "query_paper"         -> "qp_count"
      [] op = "query_papers"        -> "qps_count"
      [] op = "semantic_search_all" -> "ss_count"
      [] op = "has_embeddings"      -> "has_get"
      [] op = "preload"             -> "preload_end"

\* the call c that starts falls into the add_paper pass thread u is in
OverlappedBy(u, c) ==
    /\ InFlight(u)
    /\ call[u].op = "add_paper"
    /\ c.op \in {"add_paper", "delete_paper"}
    /\ call[u].paper_id = c.paper_id

\* the add_paper pass c that starts falls into the call thread u is in
OverlapsWith(u, c) ==
    /\ InFlight(u)
    /\ c.op = "add_paper"
    /\ call[u].op \in {"add_paper", "delete_paper"}
    /\ call[u].paper_id = c.paper_id

(***************************************************************************)
(* A call starts.  query_papers and semantic_search_all return {} for an   *)
(* empty id list before touching the collection; every other function     *)
(* begins with _get_collection(), which initialises when _collection is    *)
(* None; the preload thread calls init_vector_store itself.                *)
(***************************************************************************)
StartCallStmt(t, c) ==
    /\ pc[t] = "idle"
    /\ calls < MaxCalls
    /\ calls' = calls + 1
    /\ IF c.op \in {"query_papers", "semantic_search_all"} /\ c.ids = <<>>
       THEN /\ returned' = [NoReturn EXCEPT !.call = c, !.how = "returned", !.value = <<>>]
            /\ UNCHANGED <<pc, call, loc, overlapped>>
       ELSE /\ pc' = [pc EXCEPT ![t] =
                        IF c.op = "preload" \/ _collection = None
                        THEN "init_check" ELSE Body(c.op)]
            /\ call' = [call EXCEPT ![t] = c]
            /\ overlapped' = [u \in Threads |->
                                IF u = t THEN \E v \in Threads \ {t} : OverlappedBy(v, c)
                                ELSE overlapped[u] \/ OverlapsWith(u, c)]
            /\ returned' = NoReturn
            /\ UNCHANGED loc
    /\ UNCHANGED <<store, _client, _collection, created, faults, prev>>

StartCall(t, c) == StartCallStmt(t, c) /\ UNCHANGED purevars

Start(t) == (\E c \in CoreCalls : StartCall(t, c))

(***************************************************************************)
(* init_vector_store, line by line.  An exception leaves it through        *)
(* _get_collection and the function that called it; the preload thread     *)
(* catches it.                                                             *)
(***************************************************************************)
\* `prev` when the add_paper pass of thread t ends with `pass` to remember
PrevAfter(t, pass) ==
    IF call[t].op = "add_paper" THEN [prev EXCEPT ![call[t].paper_id] = pass] ELSE prev

InitRaises(t) ==
    /\ IF call[t].op = "preload" THEN Return(t, None, TRUE) ELSE Raise(t)
    /\ prev' = PrevAfter(t, Interrupted)

\* if _collection is not None: return
InitCheck(t) ==
    /\ pc[t] = "init_check"
    /\ Goto(t, IF _collection # None THEN Body(call[t].op) ELSE "init_client", loc[t])
    /\ UNCHANGED <<store, _client, _collection, created, calls, faults, prev, purevars>>

\* _client = chromadb.PersistentClient(path=CHROMA_PERSIST_DIR)
InitClientStmt(t) ==
    /\ pc[t] = "init_client"
    /\ \E fail \in Outcomes :
          /\ faults' = Count(fail)
          /\ IF fail
             THEN InitRaises(t) /\ UNCHANGED <<_client, created>>
             ELSE /\ _client' = "client"
                  /\ created' = [created EXCEPT !.client = @ + 1]
                  /\ Goto(t, "init_collection", loc[t])
                  /\ UNCHANGED prev
    /\ UNCHANGED <<store, _collection, calls>>

InitClient(t) == InitClientStmt(t) /\ UNCHANGED purevars

\* _collection = _client.get_or_create_collection(...)
InitCollectionStmt(t) ==
    /\ pc[t] = "init_collection"
    /\ \E fail \in Outcomes :
          /\ faults' = Count(fail)
          /\ IF fail
             THEN InitRaises(t) /\ UNCHANGED <<_collection, created>>
             ELSE /\ _collection' = "collection"
                  /\ created' = [created EXCEPT !.collection = @ + 1]
                  /\ Goto(t, "init_count", loc[t])
                  /\ UNCHANGED prev
    /\ UNCHANGED <<store, _client, calls>>

InitCollection(t) == InitCollectionStmt(t) /\ UNCHANGED purevars

\* count = _collection.count()
InitCountStmt(t) ==
    /\ pc[t] = "init_count"
    /\ \E fail \in Outcomes :
          /\ faults' = Count(fail)
          /\ IF fail
             THEN InitRaises(t)
             ELSE Goto(t, Body(call[t].op), loc[t]) /\ UNCHANGED prev
    /\ UNCHANGED <<store, _client, _collection, created, calls>>

InitCount(t) == InitCountStmt(t) /\ UNCHANGED purevars

\* _preload_vector_store returns once init_vector_store has
PreloadEnd(t) ==
    /\ pc[t] = "preload_end"
    /\ Return(t, None, FALSE)
    /\ UNCHANGED <<store, _client, _collection, created, calls, faults, prev, purevars>>

(***************************************************************************)
(* add_paper(paper_id, text)                                               *)
(***************************************************************************)
BATCH_SIZE == 100

\* new_ids = {f"paper_{paper_id}_chunk_{i}" for i in range(len(chunks))}
NewIds(paper_id, chunks) == {ChunkId(paper_id, i) : i \in 0 .. (Len(chunks) - 1)}

\* a pass that finds nothing stale, as add_paper without its clean-up would
KeepStaleIds(old_ids, new_ids) == {}

\* stale_ids = list(old_ids - new_ids)
StaleIds(old_ids, new_ids) == old_ids \ new_ids

\* a batch whose documents are counted from the start of the list in every batch
BatchRelativeRecords(paper_id, chunks, lo, hi) ==
    [id \in {ChunkId(paper_id, i) : i \in lo .. (hi - 1)} |->
        [document |-> chunks[id[2] - lo + 1],
         metadata |-> [paper_id |-> paper_id, chunk_index |-> id[2]]]]

\* ids, documents and metadatas [lo:hi] of one upsert batch
BatchRecords(paper_id, chunks, lo, hi) ==
    [id \in {ChunkId(paper_id, i) : i \in lo .. (hi - 1)} |->
        [document |-> chunks[id[2] + 1],
         metadata |-> [paper_id |-> paper_id, chunk_index |-> id[2]]]]

\* a count of the records the pass created, instead of the chunks it stored
CreatedCount(st, paper_id, chunks) == Cardinality(NewIds(paper_id, chunks) \ DOMAIN st)

\* return len(chunks)
AddResult(st, paper_id, chunks) == Len(chunks)

\* the records a pass with these chunks leaves for the paper when it runs alone
PassAlone(paper_id, chunks) ==
    [id \in {ChunkId(paper_id, i) : i \in 0 .. (Len(chunks) - 1)} |->
        [document |-> chunks[id[2] + 1],
         metadata |-> [paper_id |-> paper_id, chunk_index |-> id[2]]]]

\* the pass of thread t as `prev` remembers it: the records it left when nothing
\* disturbed it; the records it would have left alone (ret = -3) when another
\* call on the paper overlapped it
PassRecord(t, st, result) ==
    IF loc[t].failed THEN NoPass
    ELSE IF overlapped[t]
         THEN [text |-> call[t].text, recs |-> PassAlone(call[t].paper_id, loc[t].chunks),
               ret |-> -3]
    ELSE [text |-> call[t].text, recs |-> RecordsOf(st, call[t].paper_id), ret |-> result]

\* chunks = _chunk_text(text); if not chunks: return 0
AddChunk(t) ==
    /\ pc[t] = "add_chunk"
    /\ LET chunks == _chunk_text(call[t].text)
       IN  IF chunks = <<>>
           THEN /\ Return(t, 0, FALSE)
                /\ prev' = PrevAfter(t, PassRecord(t, store, 0))
           ELSE /\ Goto(t, "add_get", [loc[t] EXCEPT !.chunks = chunks])
                /\ UNCHANGED prev
    /\ UNCHANGED <<store, _client, _collection, created, calls, faults, purevars>>

\* existing = collection.get(where={"paper_id": paper_id}); an exception skips the
\* removal of the stale ids
AddGet(t) ==
    /\ pc[t] = "add_get"
    /\ \E fail \in Outcomes :
          /\ faults' = Count(fail)
          /\ IF fail
             THEN Goto(t, "add_upsert", [loc[t] EXCEPT !.failed = TRUE])
             ELSE LET old_ids   == CollGet(store, WhereEq(call[t].paper_id))
                      new_ids   == NewIds(call[t].paper_id, loc[t].chunks)
                      stale_ids == StaleIds(old_ids, new_ids)
                  IN  Goto(t, IF stale_ids # {} THEN "add_delete" ELSE "add_upsert",
                           [loc[t] EXCEPT !.ids = stale_ids])
    /\ UNCHANGED <<store, _client, _collection, created, calls, prev, purevars>>

\* collection.delete(ids=stale_ids), inside the same try
AddDelete(t) ==
    /\ pc[t] = "add_delete"
    /\ \E fail \in Outcomes :
          /\ faults' = Count(fail)
          /\ store' = IF fail THEN store ELSE CollDelete(store, loc[t].ids)
          /\ Goto(t, "add_upsert", [loc[t] EXCEPT !.failed = @ \/ fail])
    /\ UNCHANGED <<_client, _collection, created, calls, prev, purevars>>

\* one round of the batch loop; loc.i is batch_start.  An exception leaves add_paper.
AddUpsert(t) ==
    /\ pc[t] = "add_upsert"
    /\ \E fail \in Outcomes :
          /\ faults' = Count(fail)
          /\ IF fail
             THEN /\ Raise(t)
                  /\ prev' = PrevAfter(t, Interrupted)
                  /\ UNCHANGED store
             ELSE LET chunks      == loc[t].chunks
                      batch_start == loc[t].i
                      batch_end   == Min(batch_start + BATCH_SIZE, Len(chunks))
                      after       == CollUpsert(store,
                                        BatchRecords(call[t].paper_id, chunks,
                                                     batch_start, batch_end))
                      result      == AddResult(store, call[t].paper_id, chunks)
                  IN  /\ store' = after
                      /\ IF batch_start + BATCH_SIZE < Len(chunks)
                         THEN /\ Goto(t, "add_upsert",
                                      [loc[t] EXCEPT !.i = batch_start + BATCH_SIZE])
                              /\ UNCHANGED prev
                         ELSE /\ Return(t, result, FALSE)
                              /\ prev' = PrevAfter(t, PassRecord(t, after, result))
    /\ UNCHANGED <<_client, _collection, created, calls, purevars>>

(***************************************************************************)
(* delete_paper(paper_id) and has_embeddings(paper_id)                     *)
(***************************************************************************)
\* a lookup with limit=1, as has_embeddings makes it
FirstIdOnly(st, paper_id) ==
    LET found == CollGet(st, WhereEq(paper_id))
    IN  IF found = {} THEN {} ELSE {CHOOSE id \in found : \A other \in found : ~IdBefore(other, id)}

\* existing = collection.get(where={"paper_id": paper_id})
DeleteGetIds(st, paper_id) == CollGet(st, WhereEq(paper_id))

DelGet(t) ==
    /\ pc[t] = "del_get"
    /\ \E fail \in Outcomes :
          /\ faults' = Count(fail)
          /\ IF fail \/ DeleteGetIds(store, call[t].paper_id) = {}
             THEN Return(t, None, fail)
             ELSE Goto(t, "del_delete",
                       [loc[t] EXCEPT !.ids = DeleteGetIds(store, call[t].paper_id)])
    /\ UNCHANGED <<store, _client, _collection, created, calls, prev, purevars>>

\* collection.delete(ids=existing["ids"])
DelDelete(t) ==
    /\ pc[t] = "del_delete"
    /\ \E fail \in Outcomes :
          /\ faults' = Count(fail)
          /\ store' = IF fail THEN store ELSE CollDelete(store, loc[t].ids)
          /\ prev' = IF fail THEN prev ELSE [prev EXCEPT ![call[t].paper_id] = NoPass]
          /\ Return(t, None, fail)
    /\ UNCHANGED <<_client, _collection, created, calls, purevars>>

\* collection.get(where=..., limit=1); return len(existing["ids"]) > 0
HasGet(t) ==
    /\ pc[t] = "has_get"
    /\ \E fail \in Outcomes :
          /\ faults' = Count(fail)
          /\ Return(t, IF fail THEN FALSE
                       ELSE CollGet(store, WhereEq(call[t].paper_id)) # {}, fail)
    /\ UNCHANGED <<store, _client, _collection, created, calls, prev, purevars>>

(***************************************************************************)
(* query_paper(paper_id, query, n_results)                                 *)
(***************************************************************************)
\* safe_n = min(n_results, available)
SafeN(n_results, available) == Min(n_results, available)

\* collection.query raises on n_results <= 0 (ChromaDB validates the argument)
QueryRaises(fail, safe_n) == fail \/ safe_n <= 0

\* a where clause that lets every paper through, as a query without filter would
AnyPaperFilter(paper_id) == [kind |-> "eq", ids |-> Docs]

\* the where clause of query_paper and of the per-paper fallback
PaperFilter(paper_id) == WhereEq(paper_id)

\* the where clause of the batched queries
PapersFilter(paper_ids) == WhereIn(paper_ids)

\* what query_paper returns from the rows of its query
QueryPaperResult(st, paper_id, query, safe_n) ==
    Documents(st, CollQuery(st, query, safe_n, PaperFilter(paper_id)))

\* available = collection.count(); if available == 0: return []
QpCount(t) ==
    /\ pc[t] = "qp_count"
    /\ \E fail \in Outcomes :
          /\ faults' = Count(fail)
          /\ IF fail \/ CollCount(store) = 0
             THEN Return(t, <<>>, fail)
             ELSE Goto(t, "qp_query", [loc[t] EXCEPT !.available = CollCount(store)])
    /\ UNCHANGED <<store, _client, _collection, created, calls, prev, purevars>>

\* results = collection.query(..., n_results=safe_n, where={"paper_id": paper_id})
QpQuery(t) ==
    /\ pc[t] = "qp_query"
    /\ LET safe_n == SafeN(call[t].n, loc[t].available)
       IN  \E fail \in Outcomes :
            /\ faults' = Count(fail)
            /\ Return(t, IF QueryRaises(fail, safe_n) THEN <<>>
                         ELSE QueryPaperResult(store, call[t].paper_id,
                                               call[t].query, safe_n), fail)
    /\ UNCHANGED <<store, _client, _collection, created, calls, prev, purevars>>

(***************************************************************************)
(* query_papers(paper_ids, query, n_results)                               *)
(***************************************************************************)
\* the lists of result_map left untrimmed
GroupUntrimmed(st, rows, n_results) ==
    [pid \in {st[rows[j]].metadata.paper_id : j \in 1 .. Len(rows)} |->
        Documents(st, SelectSeq(rows, LAMBDA r : st[r].metadata.paper_id = pid))]

\* for doc, meta in zip(docs, metas): result_map.setdefault(pid, []).append(doc),
\* then every list trimmed to n_results
GroupByPaper(st, rows, n_results) ==
    [pid \in {st[rows[j]].metadata.paper_id : j \in 1 .. Len(rows)} |->
        LET mine == SelectSeq(rows, LAMBDA r : st[r].metadata.paper_id = pid)
        IN  Documents(st, SubSeq(mine, 1, Min(n_results, Len(mine))))]

\* result_map[pid] = docs
MapPut(map, pid, docs) ==
    [p \in (DOMAIN map) \cup {pid} |-> IF p = pid THEN docs ELSE map[p]]

\* an exception in the batched path: the fallback loop starts at the first pid
Fallback(t) == Goto(t, "fb_count", [loc[t] EXCEPT !.failed = TRUE, !.i = 1])

\* total = collection.count(); if total == 0: return {}
QpsCount(t) ==
    /\ pc[t] = "qps_count"
    /\ \E fail \in Outcomes :
          /\ faults' = Count(fail)
          /\ IF fail THEN Fallback(t)
             ELSE IF CollCount(store) = 0 THEN Return(t, <<>>, FALSE)
             ELSE Goto(t, "qps_query", [loc[t] EXCEPT !.available = CollCount(store)])
    /\ UNCHANGED <<store, _client, _collection, created, calls, prev, purevars>>

\* the single query with the $in filter
QpsQuery(t) ==
    /\ pc[t] = "qps_query"
    /\ LET safe_n == SafeN(call[t].n * Len(call[t].ids), loc[t].available)
       IN  \E fail \in Outcomes :
            /\ faults' = Count(fail)
            /\ IF QueryRaises(fail, safe_n) THEN Fallback(t)
               ELSE Return(t, GroupByPaper(store,
                                 CollQuery(store, call[t].query, safe_n,
                                           PapersFilter(call[t].ids)),
                                 call[t].n), FALSE)
    /\ UNCHANGED <<store, _client, _collection, created, calls, prev, purevars>>

\* the fallback loop moves to the next pid, or returns result_map after the last
FbNext(t, map) ==
    IF loc[t].i < Len(call[t].ids)
    THEN Goto(t, "fb_count", [loc[t] EXCEPT !.i = @ + 1, !.map = map, !.available = 0])
    ELSE Return(t, map, FALSE)

\* chunk_count = collection.count(); if chunk_count == 0: continue
FbCount(t) ==
    /\ pc[t] = "fb_count"
    /\ \E fail \in Outcomes :
          /\ faults' = Count(fail)
          /\ IF fail \/ CollCount(store) = 0
             THEN FbNext(t, loc[t].map)
             ELSE Goto(t, "fb_query", [loc[t] EXCEPT !.available = CollCount(store)])
    /\ UNCHANGED <<store, _client, _collection, created, calls, prev, purevars>>

\* the query for one pid; if docs: result_map[pid] = docs
FbQuery(t) ==
    /\ pc[t] = "fb_query"
    /\ LET safe_n == SafeN(call[t].n, loc[t].available)
           pid    == call[t].ids[loc[t].i]
           docs   == QueryPaperResult(store, pid, call[t].query, safe_n)
       IN  \E fail \in Outcomes :
            /\ faults' = Count(fail)
            /\ IF QueryRaises(fail, safe_n) \/ docs = <<>>
               THEN FbNext(t, loc[t].map)
               ELSE FbNext(t, MapPut(loc[t].map, pid, docs))
    /\ UNCHANGED <<store, _client, _collection, created, calls, prev, purevars>>

(***************************************************************************)
(* semantic_search_all(query, paper_ids, n_results)                        *)
(***************************************************************************)
\* the similarity without its floor
Unfloored(dist) == 100 - dist

\* similarity = max(0.0, 1.0 - dist), in hundredths
Similarity(dist) == Max(0, 100 - dist)

\* best_scores: the best similarity per paper_id among the result rows
BestScores(st, query, rows) ==
    [pid \in {st[rows[j]].metadata.paper_id : j \in 1 .. Len(rows)} |->
        SetMax({Similarity(EmbedDistance(query, st[rows[j]].document)) :
                   j \in {k \in 1 .. Len(rows) : st[rows[k]].metadata.paper_id = pid}})]

\* total = collection.count(); if total == 0: return {}
SsCountStmt(t) ==
    /\ pc[t] = "ss_count"
    /\ \E fail \in Outcomes :
          /\ faults' = Count(fail)
          /\ IF fail \/ CollCount(store) = 0
             THEN Return(t, <<>>, fail)
             ELSE Goto(t, "ss_query", [loc[t] EXCEPT !.available = CollCount(store)])
    /\ UNCHANGED <<store, _client, _collection, created, calls, prev>>

SsCount(t) == SsCountStmt(t) /\ UNCHANGED purevars

\* the query with the $in filter, metadatas and distances included
SsQueryStmt(t) ==
    /\ pc[t] = "ss_query"
    /\ LET safe_n == SafeN(call[t].n, loc[t].available)
       IN  \E fail \in Outcomes :
            /\ faults' = Count(fail)
            /\ Return(t, IF QueryRaises(fail, safe_n) THEN <<>>
                         ELSE BestScores(store, call[t].query,
                                 CollQuery(store, call[t].query, safe_n,
                                           PapersFilter(call[t].ids))), fail)
    /\ UNCHANGED <<store, _client, _collection, created, calls, prev>>

SsQuery(t) == SsQueryStmt(t) /\ UNCHANGED purevars

(***************************************************************************)
(* The core under concurrent callers.                                      *)
(***************************************************************************)
Step(t) ==
    \/ InitCheck(t) \/ InitClient(t) \/ InitCollection(t) \/ InitCount(t)
    \/ PreloadEnd(t)
    \/ AddChunk(t) \/ AddGet(t) \/ AddDelete(t) \/ AddUpsert(t)
    \/ DelGet(t) \/ DelDelete(t) \/ HasGet(t)
    \/ QpCount(t) \/ QpQuery(t)
    \/ QpsCount(t) \/ QpsQuery(t) \/ FbCount(t) \/ FbQuery(t)
    \/ SsCount(t) \/ SsQuery(t)

Next == \E t \in Callers : Start(t) \/ Step(t)

Spec == Init /\ [][Next]_vars

(***************************************************************************)
(* Indexing passes alone: one caller after another calls add_paper, with   *)
(* a text long enough for the batch loop of lines 119-126 to go round      *)
(* twice.                                                                  *)
(***************************************************************************)
\* 45300 characters: 100 chunks of 500 and one of 300, upserted as batches of
\* 100 and 1
TextBatches == <<(<<"d", 45300>>)>>

IndexTexts == {TextBlank, TextTwo, TextBatches}

IndexCalls == {[NoCall EXCEPT !.op = "add_paper", !.paper_id = d, !.text = x] :
                  d \in Docs, x \in IndexTexts}

StartIndex(t) == (\E c \in IndexCalls : StartCall(t, c))

IndexStep(t) ==
    \/ InitCheck(t) \/ InitClient(t) \/ InitCollection(t) \/ InitCount(t)
    \/ AddChunk(t) \/ AddGet(t) \/ AddDelete(t) \/ AddUpsert(t)

\* the thread the passes run on
Indexer == "t1"

NextIndex == StartIndex(Indexer) \/ IndexStep(Indexer)

SpecIndex == Init /\ [][NextIndex]_vars

(***************************************************************************)
(* _chunk_text on its own, one iteration of its while loop per step, on    *)
(* every text of at most MaxRuns runs of a letter, a period, a question    *)
(* mark, a blank or a newline.                                             *)
(***************************************************************************)
\* runs in a text
MaxRuns == 3

RunChars == {"a", ".", "?", " ", "\n"}

RunLens == {1, 450, 600}

ChunkTexts ==
    {<<>>} \cup
    UNION {{s \in [1 .. k -> RunChars \X RunLens] :
               \A i \in 1 .. (k - 1) : s[i][1] # s[i + 1][1]} : k \in 1 .. MaxRuns}

\* segments: the pairs (start, end) of the iterations so far
InitChunk ==
    /\ ProgramInit
    /\ scoring = NotFollowed
    /\ ranking = NotFollowed
    /\ \E text \in ChunkTexts :
          chunking = [pc |-> "guard", text |-> text, start |-> 0, chunks |-> <<>>,
                      segments |-> <<>>]

\* if not text or not text.strip(): return []
ChunkGuard ==
    /\ chunking.pc = "guard"
    /\ chunking' = [chunking EXCEPT !.pc =
                        IF chunking.text = <<>> \/ Strip(chunking.text) = <<>>
                        THEN "done" ELSE "loop"]
    /\ UNCHANGED <<programvars, scoring, ranking>>

\* one iteration of: while start < text_len
ChunkIter ==
    /\ chunking.pc = "loop"
    /\ chunking.start < StrLen(chunking.text)
    /\ LET text  == chunking.text
           start == chunking.start
           end   == ChunkEnd(text, start)
           chunk == Strip(Slice(text, start, end))
       IN  chunking' = [chunking EXCEPT !.chunks = Emit(@, chunk),
                                        !.start = NextStart(text, end),
                                        !.segments = Append(@, <<start, end>>)]
    /\ UNCHANGED <<programvars, scoring, ranking>>

\* return chunks
ChunkReturn ==
    /\ chunking.pc = "loop"
    /\ chunking.start >= StrLen(chunking.text)
    /\ chunking' = [chunking EXCEPT !.pc = "done"]
    /\ UNCHANGED <<programvars, scoring, ranking>>

NextChunk == ChunkGuard \/ ChunkIter \/ ChunkReturn

SpecChunk == InitChunk /\ [][NextChunk]_vars

\* the loop taken step by step returns what _chunk_text gives
ChunkStepsAgree ==
    chunking.pc = "done" => chunking.chunks = _chunk_text(chunking.text)

(***************************************************************************)
(* Properties of the core.  A property of a call is stated at the step     *)
(* that ends it, where returned holds the call, its result and its locals. *)
(***************************************************************************)
\* the call that ended in the last step was a call of op, and it returned
Returned(op) == returned.how = "returned" /\ returned.call.op = op

\* none of its backend calls failed, and no add_paper pass on its paper overlapped it
Undisturbed == ~returned.failed /\ ~returned.overlapped

Range(seq) == {seq[j] : j \in 1 .. Len(seq)}

\* the chunk texts stored under paper_id
DocsUnder(st, paper_id) == {st[id].document : id \in CollGet(st, WhereEq(paper_id))}

\* query_paper run alone on st, no backend call failing
query_paper(st, paper_id, query, n_results) ==
    IF CollCount(st) = 0 THEN <<>>
    ELSE LET safe_n == SafeN(n_results, CollCount(st))
         IN  IF QueryRaises(FALSE, safe_n) THEN <<>>
             ELSE QueryPaperResult(st, paper_id, query, safe_n)

\* C1: when an add_paper pass for paper d returns n >= 1, no backend call of it having
\* failed and no other pass for d having overlapped it, n is the number of chunks of
\* the text and the ids stored for d are exactly d's ids of the indices 0 .. n-1.
C1_PassLeavesExactlyItsChunks ==
    (Returned("add_paper") /\ Undisturbed /\ returned.value >= 1) =>
        /\ returned.value = Len(returned.loc.chunks)
        /\ CollGet(store, WhereEq(returned.call.paper_id))
             = {ChunkId(returned.call.paper_id, i) : i \in 0 .. (returned.value - 1)}

\* a pass of 2 chunks that found, and removed, the chunks 2..4 of an earlier pass
C1_ShrinkFiveToTwo ==
    /\ Returned("add_paper") /\ Undisturbed /\ returned.value = 2
    /\ returned.loc.ids = {ChunkId(returned.call.paper_id, i) : i \in 2 .. 4}

\* C2: an add_paper pass on a text without chunks (empty or blank) returns 0 and
\* leaves no record of the paper in the collection.
C2_EmptyTextClearsPaper ==
    (Returned("add_paper") /\ Undisturbed /\ _chunk_text(returned.call.text) = <<>>) =>
        /\ returned.value = 0
        /\ CollGet(store, WhereEq(returned.call.paper_id)) = {}

\* C3: when delete_paper(d) returns, its backend calls having succeeded and no
\* add_paper pass for d having overlapped it, query_paper(d, q, k) on the collection
\* it leaves is empty for every query q and every limit k.
C3_DeleteCompleteness ==
    (Returned("delete_paper") /\ Undisturbed) =>
        \A q \in Queries, k \in 0 .. (MaxK + 1) :
            query_paper(store, returned.call.paper_id, q, k) = <<>>

\* a delete_paper that removed records while another paper keeps some, so that
\* query_paper does reach its backend query
C3_DeletedAmongOthers ==
    /\ Returned("delete_paper") /\ Undisturbed
    /\ returned.loc.ids # {}
    /\ CollCount(store) > 0

\* C5: when an add_paper pass for (d, text) returns undisturbed, and the pass for d
\* before it was an undisturbed pass on the same text with no delete of d between
\* them, the records of d (ids, documents, metadata) are those the first pass left
\* and the two passes return the same count.
C5_ReindexIdempotent ==
    (/\ Returned("add_paper") /\ Undisturbed
     /\ returned.before.ret >= 0
     /\ returned.before.text = returned.call.text) =>
        /\ RecordsOf(store, returned.call.paper_id) = returned.before.recs
        /\ returned.value = returned.before.ret

\* the second of two passes on the same text with chunks
C5_SecondPassSameText ==
    /\ Returned("add_paper") /\ Undisturbed
    /\ returned.before.ret >= 0
    /\ returned.before.text = returned.call.text
    /\ returned.value >= 1

\* C6: query_paper, query_papers, semantic_search_all and delete_paper never end
\* with an exception, whichever backend step fails, initialisation included.
C6_ReadsAndDeleteNeverRaise ==
    returned.how = "raised" =>
        returned.call.op \notin {"query_paper", "query_papers",
                                 "semantic_search_all", "delete_paper"}

\* C7: add_paper reports a pass whose initialisation or upsert failed by returning
\* 0: once a backend call of the pass has failed, the pass does not end with an
\* exception nor with a positive count.  (The get and the delete of the stale ids
\* are the failures add_paper swallows by design; they are left out.)
C7_FailedPassReturnsZero ==
    (/\ returned.call.op = "add_paper"
     /\ returned.failed
     /\ ~returned.loc.failed) =>
        /\ returned.how = "returned"
        /\ returned.value = 0

\* C8: the persistent client and the collection are created at most once, also when
\* callers race through init_vector_store (stated for runs without backend failure).
C8_InitialisedOnce ==
    faults = 0 => (created.client <= 1 /\ created.collection <= 1)

QueryLabels == {"qp_query", "qps_query", "fb_query", "ss_query"}

CountLabels == {"qp_count", "qps_count", "fb_count", "ss_count"}

\* the n_results of the backend query thread t is about to issue
RequestedN(t) ==
    IF pc[t] = "qps_query"
    THEN SafeN(call[t].n * Len(call[t].ids), loc[t].available)
    ELSE SafeN(call[t].n, loc[t].available)

\* C9: every backend query of query_paper, query_papers (batched and fallback) and
\* semantic_search_all asks for no more results than the collection holds when the
\* query is issued, and no query follows a count of 0.
C9_RequestWithinCollection ==
    [][\A t \in Threads :
          /\ (pc[t] \in QueryLabels /\ pc'[t] # pc[t])
                => RequestedN(t) <= CollCount(store)
          /\ (pc[t] \in CountLabels /\ pc'[t] \in QueryLabels)
                => CollCount(store) > 0]_vars

\* the keys of a result map are requested papers
KeysWithin(map, paper_ids) == DOMAIN map \subseteq Range(paper_ids)

\* C10: query_paper(d) returns only documents stored under d; the maps of
\* query_papers and semantic_search_all have keys among the requested paper ids, and
\* the value of a key d is made of records stored under d only.
C10_IsolationByFilter ==
    [][\A t \in Threads :
          /\ (pc[t] = "qp_query" /\ pc'[t] = "idle")
                => Range(returned'.value) \subseteq DocsUnder(store, call[t].paper_id)
          /\ (pc[t] = "qps_query" /\ pc'[t] = "idle")
                => /\ KeysWithin(returned'.value, call[t].ids)
                   /\ \A d \in DOMAIN returned'.value :
                         Range(returned'.value[d]) \subseteq DocsUnder(store, d)
          /\ (pc[t] = "fb_query" /\ pc'[t] # "fb_query")
                => LET map == IF pc'[t] = "idle" THEN returned'.value ELSE loc'[t].map
                       pid == call[t].ids[loc[t].i]
                   IN  /\ KeysWithin(map, call[t].ids)
                       /\ \A d \in DOMAIN map :
                             IF d = pid /\ (d \notin DOMAIN loc[t].map \/ map[d] # loc[t].map[d])
                             THEN Range(map[d]) \subseteq DocsUnder(store, d)
                             ELSE d \in DOMAIN loc[t].map /\ map[d] = loc[t].map[d]
          /\ (pc[t] = "ss_query" /\ pc'[t] = "idle")
                => /\ KeysWithin(returned'.value, call[t].ids)
                   /\ \A d \in DOMAIN returned'.value :
                         returned'.value[d] \in
                            {Similarity(EmbedDistance(call[t].query, x)) :
                                x \in DocsUnder(store, d)}]_vars

\* query_papers returned documents while the collection held records of a paper
\* that was not requested
C10_OtherPaperPresent ==
    /\ Returned("query_papers")
    /\ returned.value # <<>>
    /\ \E id \in DOMAIN store :
          store[id].metadata.paper_id \notin Range(returned.call.ids)

(***************************************************************************)
(* Properties of the indexing pass.                                        *)
(***************************************************************************)
\* the add_paper pass that returned came next after a pass on the same paper that
\* an exception ended, and none of its own backend calls failed
AfterInterrupted == Returned("add_paper") /\ Undisturbed /\ returned.before.ret = -2

\* the paper of the call that returned holds exactly the chunks of the text of the call
ExactlyItsChunks ==
    RecordsOf(store, returned.call.paper_id) =
        PassAlone(returned.call.paper_id, _chunk_text(returned.call.text))

\* the pass after an interrupted one heals the paper when its text has a chunk
HealsWithChunks ==
    (AfterInterrupted /\ returned.value >= 1) => ExactlyItsChunks

\* C21: when an add_paper pass on a paper ended with an exception, the next pass on
\* that paper that runs to completion leaves the paper with exactly the chunks of
\* its text, whatever the text.
C21_NextPassHeals == AfterInterrupted => ExactlyItsChunks

\* two add_paper passes on one paper with different texts were the only calls,
\* overlapped, met no failure and have both returned; `returned` is the later one
BothPassesDone ==
    /\ Returned("add_paper") /\ returned.overlapped /\ ~returned.failed
    /\ calls = 2 /\ faults = 0
    /\ returned.before.ret = -3
    /\ returned.before.text # returned.call.text

\* what the later of the two passes would have left alone
LaterAlone == PassAlone(returned.call.paper_id, returned.loc.chunks)

\* what the earlier of the two passes would have left alone
EarlierAlone == returned.before.recs

\* C22: two overlapping add_paper passes on one paper are not coordinated.  When
\* both have returned, the paper holds every chunk of the pass that returned last,
\* and whatever else it holds is a chunk the other pass wrote; there is an
\* interleaving after which this is the result of neither pass run alone
\* (C22_NeitherPassAlone).
C22_OverlapMixesTwoPasses ==
    BothPassesDone =>
        LET now == RecordsOf(store, returned.call.paper_id)
        IN  /\ DOMAIN LaterAlone \subseteq DOMAIN now
            /\ DOMAIN now \subseteq (DOMAIN LaterAlone) \cup (DOMAIN EarlierAlone)
            /\ \A id \in DOMAIN now :
                  now[id] = IF id \in DOMAIN LaterAlone THEN LaterAlone[id]
                            ELSE EarlierAlone[id]

\* the interleaving: the paper is left with chunks of both texts
C22_NeitherPassAlone ==
    /\ BothPassesDone
    /\ RecordsOf(store, returned.call.paper_id) # LaterAlone
    /\ RecordsOf(store, returned.call.paper_id) # EarlierAlone

\* the records one step creates or changes
Written == {id \in DOMAIN store' : id \notin DOMAIN store \/ store'[id] # store[id]}

\* C25: after an add_paper pass that met no failure and no overlapping call and
\* produced the chunks c_0 .. c_(n-1), the record under the id of the paper and i
\* holds the text c_i with paper_id d and chunk_index i for every i < n, whatever
\* the position held before; and no step writes more than 100 records.
C25_EachChunkUnderItsId ==
    /\ []((Returned("add_paper") /\ Undisturbed) =>
            LET d      == returned.call.paper_id
                chunks == returned.loc.chunks
            IN  /\ returned.value = Len(chunks)
                /\ \A i \in 0 .. (Len(chunks) - 1) :
                      /\ ChunkId(d, i) \in DOMAIN store
                      /\ store[ChunkId(d, i)].document = chunks[i + 1]
                      /\ store[ChunkId(d, i)].metadata = [paper_id |-> d, chunk_index |-> i])
    /\ [][Cardinality(Written) <= BATCH_SIZE]_vars

\* a pass of 101 chunks, written as two batches over the two chunks of another text
C25_TwoBatchesOverEarlierPass ==
    /\ Returned("add_paper") /\ Undisturbed
    /\ returned.value > BATCH_SIZE
    /\ returned.before.ret >= 1
    /\ returned.before.text # returned.call.text

\* C26: when the lookup of the existing ids or the delete of the stale ones fails
\* in an add_paper pass, and the upserts succeed so that the call returns n >= 1,
\* the collection holds exactly n records of the paper.
C26_PartialFailureLeavesExactlyN ==
    (/\ Returned("add_paper") /\ ~returned.overlapped
     /\ returned.loc.failed
     /\ returned.value >= 1) =>
        Cardinality(CollGet(store, WhereEq(returned.call.paper_id))) = returned.value

\* thread t takes the step
Moves(t) == pc'[t] # pc[t] \/ loc'[t] # loc[t]

ReadOps == {"query_paper", "query_papers", "semantic_search_all", "has_embeddings"}

\* C28: a step of query_paper, query_papers, semantic_search_all or has_embeddings
\* leaves the collection as it is; a step of add_paper(d) or delete_paper(d) leaves
\* the records of every other paper as they are, whatever the other thread is in;
\* and delete_paper(d) that finds no record of d changes nothing and returns.
C28_FrameConditions ==
    [][\A t \in Threads :
          (InFlight(t) /\ Moves(t)) =>
             /\ (call[t].op \in ReadOps) => store' = store
             /\ (call[t].op \in {"add_paper", "delete_paper"}) =>
                   \A d \in Docs \ {call[t].paper_id} :
                      RecordsOf(store', d) = RecordsOf(store, d)
             /\ (/\ pc[t] = "del_get"
                 /\ CollGet(store, WhereEq(call[t].paper_id)) = {}) =>
                   /\ store' = store
                   /\ pc'[t] = "idle"
                   /\ returned'.how = "returned"]_vars

\* delete_paper has returned from a paper without records while the other thread
\* is in a call on the other paper, whose records are there
C28_DeleteOfUnindexedPaper ==
    /\ Returned("delete_paper") /\ ~returned.failed
    /\ returned.loc.ids = {}
    /\ \E d \in Docs \ {returned.call.paper_id} :
          /\ CollGet(store, WhereEq(d)) # {}
          /\ \E u \in Threads : InFlight(u) /\ call[u].paper_id = d

\* max(0, 1 - distance) of a record for a query, in hundredths
SimilarityTo(query, rec) ==
    LET s == 100 - EmbedDistance(query, rec.document) IN IF s < 0 THEN 0 ELSE s

\* the chunk texts of a result come nearest first
Ascending(query, docs) ==
    \A j \in 1 .. (Len(docs) - 1) :
        EmbedDistance(query, docs[j]) <= EmbedDistance(query, docs[j + 1])

\* C30: query_paper returns at most n_results chunk texts; query_papers returns at
\* most n_results chunk texts for every paper, from the single query as from the
\* fallback loop; every list is in ascending order of distance.
C30_AtMostKNearestFirst ==
    /\ Returned("query_paper") =>
          /\ Len(returned.value) <= returned.call.n
          /\ Ascending(returned.call.query, returned.value)
    /\ Returned("query_papers") =>
          \A d \in DOMAIN returned.value :
             /\ Len(returned.value[d]) <= returned.call.n
             /\ Ascending(returned.call.query, returned.value[d])

\* the single query of query_papers returned more than n_results rows of one paper:
\* its list holds n_results of them, the nearer one first
C30_ListTrimmed ==
    /\ Returned("query_papers") /\ ~returned.failed
    /\ \E d \in DOMAIN returned.value :
          /\ Len(returned.value[d]) = returned.call.n
          /\ Cardinality(CollGet(store, WhereEq(d))) > returned.call.n + 1
          /\ DOMAIN returned.value = {d}
          /\ EmbedDistance(returned.call.query, returned.value[d][1])
                < EmbedDistance(returned.call.query, returned.value[d][2])

\* the fallback loop of query_papers returned n_results chunks of a paper that
\* holds more
FallbackListFull ==
    /\ Returned("query_papers") /\ returned.loc.failed
    /\ \E d \in DOMAIN returned.value :
          /\ Len(returned.value[d]) = returned.call.n
          /\ Cardinality(CollGet(store, WhereEq(d))) > returned.call.n

(***************************************************************************)
(* Properties of the chunker.                                              *)
(***************************************************************************)
\* s + t
Concat(s, t) ==
    IF s = <<>> THEN t
    ELSE IF t = <<>> THEN s
    ELSE IF s[Len(s)][1] = Head(t)[1]
         THEN SubSeq(s, 1, Len(s) - 1) \o <<(<<Head(t)[1], s[Len(s)][2] + Head(t)[2]>>)>>
              \o Tail(t)
         ELSE s \o t

RECURSIVE Rebuild(_, _)
\* the chunks from the i-th on put end to end, each without the CHUNK_OVERLAP
\* characters it shares with the chunk before it
Rebuild(chunks, i) ==
    IF i > Len(chunks) THEN <<>>
    ELSE Concat(IF i = 1 THEN chunks[i]
                ELSE Slice(chunks[i], CHUNK_OVERLAP, StrLen(chunks[i])),
                Rebuild(chunks, i + 1))

ChunkDone == chunking.pc = "done" /\ Strip(chunking.text) # <<>>

\* the segments that are not blank, trimmed, in order
TrimmedSegments(text, segments) ==
    LET trimmed == [i \in 1 .. Len(segments) |->
                       Strip(Slice(text, segments[i][1], segments[i][2]))]
    IN  SelectSeq(trimmed, LAMBDA c : c # <<>>)

\* C18, as the code has it: the segments text[start:end] the loop cuts cover the
\* text without a gap (the first starts at 0, each next one starts CHUNK_OVERLAP
\* before the end of the one before, the last reaches the end of the text), and the
\* chunks are these segments, in order, with the whitespace around them trimmed and
\* the blank ones left out: nothing but whitespace at the edge of a segment is
\* dropped.
C18_SegmentsCoverText ==
    ChunkDone =>
        LET segments == chunking.segments
            n        == Len(segments)
        IN  /\ n >= 1
            /\ segments[1][1] = 0
            /\ \A i \in 1 .. (n - 1) :
                  /\ segments[i + 1][1] = segments[i][2] - CHUNK_OVERLAP
                  /\ segments[i][1] < segments[i + 1][1]
            /\ segments[n][2] >= StrLen(chunking.text)
            /\ chunking.chunks = TrimmedSegments(chunking.text, segments)

\* a text cut in two chunks or more, whitespace trimmed from one of them
C18_TrimmedText ==
    /\ ChunkDone
    /\ Len(chunking.chunks) >= 2
    /\ Rebuild(chunking.chunks, 1) # chunking.text

\* C18, as the specification has it: the chunks of a text that is not blank, put
\* end to end without the overlaps, are the text.
C18_ChunksRebuildText ==
    ChunkDone => Rebuild(chunking.chunks, 1) = chunking.text

\* C19: no chunk is longer than CHUNK_SIZE + LOOKBACK characters.
C19_ChunkSizeBound ==
    \A i \in 1 .. Len(chunking.chunks) :
        StrLen(chunking.chunks[i]) <= CHUNK_SIZE + LOOKBACK

\* a text cut at a sentence boundary and, further on, at the full CHUNK_SIZE
C19_FullAndCutChunks ==
    /\ ChunkDone
    /\ \E i \in 1 .. Len(chunking.chunks) : StrLen(chunking.chunks[i]) = CHUNK_SIZE
    /\ \E i \in 1 .. Len(chunking.segments) :
          chunking.segments[i][2] < chunking.segments[i][1] + CHUNK_SIZE

\* C20: an empty or blank text gives no chunk, and no chunk of any text is empty
\* or blank.
C20_NoBlankChunk ==
    /\ (chunking.pc = "done" /\ Strip(chunking.text) = <<>>) => chunking.chunks = <<>>
    /\ \A i \in 1 .. Len(chunking.chunks) : Strip(chunking.chunks[i]) # <<>>

\* a text with chunks, one of its segments blank and dropped
C20_BlankSegmentDropped ==
    /\ ChunkDone
    /\ chunking.chunks # <<>>
    /\ Len(chunking.chunks) < Len(chunking.segments)

\* C23: every iteration of the loop of _chunk_text moves start forward and not
\* beyond the end of the text, where the loop is left; there are no more
\* iterations than the text has characters.
C23_StartMovesForward ==
    [][(chunking.pc = "loop" /\ chunking'.pc = "loop")
          => /\ chunking'.start > chunking.start
             /\ chunking'.start <= StrLen(chunking.text)
             /\ Len(chunking'.segments) <= StrLen(chunking.text)]_vars

\* three iterations or more, one of them cut at a sentence boundary
C23_SeveralIterations ==
    /\ ChunkDone
    /\ Len(chunking.segments) >= 3
    /\ \E i \in 1 .. Len(chunking.segments) :
          /\ chunking.segments[i][2] < StrLen(chunking.text)
          /\ chunking.segments[i][2] < chunking.segments[i][1] + CHUNK_SIZE

\* the marks that end a sentence
SentenceMarks == {".", "?", "!"}

\* the positions of the lookback window [lo, budget) that hold a mark of `marks`
\* followed by whitespace, or a newline
Terminators(text, marks, lo, budget) ==
    {p \in lo .. (budget - 1) :
        \/ CharAt(text, p) = "\n"
        \/ /\ CharAt(text, p) \in marks
           /\ p + 1 < StrLen(text)
           /\ CharAt(text, p + 1) \in Whitespace}

\* every cut made so far follows the boundary policy, for the marks given
CutPolicy(marks) ==
    \A i \in 1 .. Len(chunking.segments) :
        LET start  == chunking.segments[i][1]
            end    == chunking.segments[i][2]
            budget == start + CHUNK_SIZE
            found  == Terminators(chunking.text, marks, Max(budget - LOOKBACK, start), budget)
        IN  budget < StrLen(chunking.text) =>
                end = IF found # {} THEN SetMax(found) + 1 ELSE budget

\* the policy as the code has it: the period is the only mark looked for
PeriodCutPolicy == CutPolicy({"."})

\* C24: a chunk whose budgeted cut point falls before the end of the text is
\* cut right after the last sentence-ending mark followed by whitespace, or
\* newline, of the lookback window, and at the budgeted point when the window
\* has none.
C24_CutAfterLastTerminator == CutPolicy(SentenceMarks)

(***************************************************************************)
(* routers/papers.py: the lexical scorer.  Floats are exact fractions      *)
(* <<n, d>>, d > 0.  An Optional[str] is the set of its values: {} is      *)
(* None.                                                                   *)
(***************************************************************************)
RatLe(x, y) == x[1] * y[2] <= y[1] * x[2]

RatEq(x, y) == x[1] * y[2] = y[1] * x[2]

RatMin(x, y) == IF RatLe(x, y) THEN x ELSE y

RatAdd(x, y) == <<x[1] * y[2] + y[1] * x[2], x[2] * y[2]>>

RatMul(x, y) == <<x[1] * y[1], x[2] * y[2]>>

RECURSIVE Str(_)
\* the string of the characters cs
Str(cs) == IF cs = <<>> THEN <<>> ELSE Concat(<<(<<Head(cs), 1>>)>>, Str(Tail(cs)))

UpperCase == <<"A", "B", "C", "D", "E", "F", "G", "H", "I", "J", "K", "L", "M",
               "N", "O", "P", "Q", "R", "S", "T", "U", "V", "W", "X", "Y", "Z">>

LowerCase == <<"a", "b", "c", "d", "e", "f", "g", "h", "i", "j", "k", "l", "m",
               "n", "o", "p", "q", "r", "s", "t", "u", "v", "w", "x", "y", "z">>

Digits == {"0", "1", "2", "3", "4", "5", "6", "7", "8", "9"}

\* The texts of the scorer are over ASCII and these characters, written by code
\* point: KELVIN SIGN, LATIN CAPITAL LETTER I WITH DOT ABOVE, COMBINING DOT ABOVE,
\* LATIN CAPITAL LETTER E WITH ACUTE and LATIN SMALL LETTER E WITH ACUTE.  What is
\* shown of the scorer is shown for texts over this alphabet.
NonAscii == {"U+212A", "U+0130", "U+0307", "U+00C9", "U+00E9"}

\* c.lower() for a character of that alphabet, as str.lower() maps it: the Kelvin
\* sign becomes the ASCII k, the dotted capital I becomes i followed by the
\* combining dot, a capital letter becomes its small letter, and every other
\* character is left as it is
Lower(c) ==
    IF \E i \in 1 .. 26 : UpperCase[i] = c
    THEN Str(<<LowerCase[CHOOSE i \in 1 .. 26 : UpperCase[i] = c]>>)
    ELSE IF c = "U+212A" THEN Str(<<"k">>)
    ELSE IF c = "U+0130" THEN Str(<<"i", "U+0307">>)
    ELSE IF c = "U+00C9" THEN Str(<<"U+00E9">>)
    ELSE Str(<<c>>)

RECURSIVE Repeat(_, _)
\* s * n
Repeat(s, n) == IF n = 0 THEN <<>> ELSE Concat(s, Repeat(s, n - 1))

RECURSIVE LowerStr(_)
\* text.lower()
LowerStr(s) ==
    IF s = <<>> THEN <<>>
    ELSE Concat(Repeat(Lower(Head(s)[1]), Head(s)[2]), LowerStr(Tail(s)))

\* [a-z0-9]: the ASCII small letters and digits only
Alnum == Range(LowerCase) \cup Digits

RECURSIVE TokenRuns(_, _, _)
\* the maximal runs of [a-z0-9] in s: cur is the run being read
TokenRuns(s, cur, tokens) ==
    IF s = <<>> THEN Emit(tokens, cur)
    ELSE LET c == Head(s)[1]
         IN  IF c \in Alnum
             THEN TokenRuns(Tail(s), Concat(cur, <<(<<c, Head(s)[2]>>)>>), tokens)
             ELSE TokenRuns(Tail(s), <<>>, Emit(tokens, cur))

\* re.findall(r"[a-z0-9]+", text.lower())
_tokenize(text) == TokenRuns(LowerStr(text), <<>>, <<>>)

\* x or ""
OrEmpty(x) == IF x = {} THEN <<>> ELSE CHOOSE v \in x : TRUE

\* a token counted in a field when a token of the field starts with it
TokenStarts(qt, tokens) == \E t \in tokens : Slice(t, 0, StrLen(qt)) = qt

\* qt in title_tokens
TokenIn(qt, tokens) == qt \in tokens

\* the fields tried in turn, the first one that has the token counting alone
FirstFieldWeight(qt, title_tokens, author_tokens, abstract_tokens) ==
    IF TokenIn(qt, title_tokens) THEN 3
    ELSE IF TokenIn(qt, author_tokens) THEN 2
    ELSE IF TokenIn(qt, abstract_tokens) THEN 1 ELSE 0

\* what one query token adds to score
TokenWeight(qt, title_tokens, author_tokens, abstract_tokens) ==
    (IF TokenIn(qt, title_tokens) THEN 3 ELSE 0)
    + (IF TokenIn(qt, author_tokens) THEN 2 ELSE 0)
    + (IF TokenIn(qt, abstract_tokens) THEN 1 ELSE 0)

RECURSIVE ScoreLoop(_, _, _, _, _)
\* for qt in query_tokens, from the i-th on
ScoreLoop(query_tokens, i, title_tokens, author_tokens, abstract_tokens) ==
    IF i > Len(query_tokens) THEN 0
    ELSE TokenWeight(query_tokens[i], title_tokens, author_tokens, abstract_tokens)
         + ScoreLoop(query_tokens, i + 1, title_tokens, author_tokens, abstract_tokens)

\* the score over the largest single weight, not clamped
OverTitleWeight(score, max_possible) == <<2 * score, max_possible>>

\* min(score / max_possible, 1.0) if max_possible > 0 else 0.0
Normalise(score, max_possible) ==
    IF max_possible > 0 THEN RatMin(<<score, max_possible>>, <<1, 1>>) ELSE <<0, 1>>

_keyword_score(query_tokens, paper) ==
    IF query_tokens = <<>> THEN <<0, 1>>
    ELSE LET title_tokens    == Range(_tokenize(OrEmpty(paper.title)))
             author_tokens   == Range(_tokenize(OrEmpty(paper.authors)))
             abstract_tokens == Range(_tokenize(OrEmpty(paper.abstract)))
             score           == ScoreLoop(query_tokens, 1, title_tokens, author_tokens,
                                          abstract_tokens)
             max_possible    == Len(query_tokens) * 6
         IN  Normalise(score, max_possible)

(***************************************************************************)
(* A call of _keyword_score on its own.                                    *)
(***************************************************************************)
MaxTokens == 3

\* ab, c, x and ki
QueryWords == {Str(<<"a", "b">>), Str(<<"c">>), Str(<<"x">>), Str(<<"k", "i">>)}

TokenLists == UNION {[1 .. k -> QueryWords] : k \in 0 .. MaxTokens}

\* "Ab c", "c-D9", the Kelvin sign and the dotted capital I before "x", a capital
\* E with acute and "9" (its tokens are ki, x and 9), "" and None
FieldTexts ==
    {{Str(<<"A", "b", " ", "c">>)}, {Str(<<"c", "-", "D", "9">>)},
     {Str(<<"U+212A", "U+0130", "x", "U+00C9", "9">>)}, {<<>>}, {}}

\* title "Deep Learning for Graphs", authors "A. Smith", abstract "graph neural networks"
ExamplePaper ==
    [title    |-> {Str(<<"D", "e", "e", "p", " ", "L", "e", "a", "r", "n", "i", "n", "g", " ",
                         "f", "o", "r", " ", "G", "r", "a", "p", "h", "s">>)},
     authors  |-> {Str(<<"A", ".", " ", "S", "m", "i", "t", "h">>)},
     abstract |-> {Str(<<"g", "r", "a", "p", "h", " ", "n", "e", "u", "r", "a", "l", " ",
                         "n", "e", "t", "w", "o", "r", "k", "s">>)}]

\* "graph learning"
ExampleQuery == Str(<<"g", "r", "a", "p", "h", " ", "l", "e", "a", "r", "n", "i", "n", "g">>)

ScoredPapers == [title : FieldTexts, authors : FieldTexts, abstract : FieldTexts]

InitScore ==
    /\ ProgramInit
    /\ chunking = NotFollowed
    /\ ranking = NotFollowed
    /\ \/ \E query_tokens \in TokenLists, paper \in ScoredPapers :
              scoring = [pc |-> "call", query_tokens |-> query_tokens, paper |-> paper]
       \/ scoring = [pc |-> "call", query_tokens |-> _tokenize(ExampleQuery),
                     paper |-> ExamplePaper]

\* if not query_tokens: return 0.0
ScoreEmpty ==
    /\ scoring.pc = "call"
    /\ scoring.query_tokens = <<>>
    /\ scoring' = [pc |-> "done", query_tokens |-> scoring.query_tokens,
                   paper |-> scoring.paper, score |-> <<0, 1>>]
    /\ UNCHANGED <<programvars, chunking, ranking>>

\* the three token sets, the loop and the normalised return
ScoreTokens ==
    /\ scoring.pc = "call"
    /\ scoring.query_tokens # <<>>
    /\ scoring' = [pc |-> "done", query_tokens |-> scoring.query_tokens,
                   paper |-> scoring.paper,
                   score |-> _keyword_score(scoring.query_tokens, scoring.paper)]
    /\ UNCHANGED <<programvars, chunking, ranking>>

NextScore == ScoreEmpty \/ ScoreTokens

SpecScore == InitScore /\ [][NextScore]_vars

(***************************************************************************)
(* Properties of the lexical scorer.                                       *)
(***************************************************************************)
Scored == scoring.pc = "done"

TitleSet == Range(_tokenize(OrEmpty(scoring.paper.title)))

AuthorSet == Range(_tokenize(OrEmpty(scoring.paper.authors)))

AbstractSet == Range(_tokenize(OrEmpty(scoring.paper.abstract)))

\* the positions of the query tokens found in a token set
HitsIn(tokens) ==
    {i \in 1 .. Len(scoring.query_tokens) : scoring.query_tokens[i] \in tokens}

\* C15: the score of every call lies in [0, 1], and is 0 when the token list
\* is empty, whatever the repeats in the list and the fields missing; the
\* fields are texts of ASCII and NonAscii characters.
C15_ScoreInUnitInterval ==
    Scored =>
        /\ RatLe(<<0, 1>>, scoring.score)
        /\ RatLe(scoring.score, <<1, 1>>)
        /\ (scoring.query_tokens = <<>> => RatEq(scoring.score, <<0, 1>>))

\* a repeated token found in title and authors, the abstract missing: the
\* per-token weights would exceed a bound of 3 per token
C15_RepeatedTokenMissingField ==
    /\ Scored
    /\ Len(scoring.query_tokens) = 2
    /\ scoring.query_tokens[1] = scoring.query_tokens[2]
    /\ scoring.paper.abstract = {}
    /\ HitsIn(TitleSet) = {1, 2}
    /\ HitsIn(AuthorSet) = {1, 2}
    /\ RatEq(scoring.score, <<5, 6>>)

IsExample ==
    /\ Scored
    /\ scoring.paper = ExamplePaper
    /\ scoring.query_tokens = <<Str(<<"g", "r", "a", "p", "h">>),
                                Str(<<"l", "e", "a", "r", "n", "i", "n", "g">>)>>

\* C16: for the example document and the query "graph learning", the token
\* graph is in the abstract set only (the title has the token graphs) and
\* scores 1, the token learning is in the title set and scores 3, and the
\* score is 4/12.
C16_ExampleScoresFourTwelfths ==
    IsExample =>
        /\ HitsIn(TitleSet) = {2}
        /\ HitsIn(AuthorSet) = {}
        /\ HitsIn(AbstractSet) = {1}
        /\ RatEq(scoring.score, <<4, 12>>)

C16_ExampleScored == IsExample /\ Str(<<"g", "r", "a", "p", "h", "s">>) \in TitleSet

\* the statement as the specification has it: graph counted in the title
\* too, score 7/12
C16_ExampleScoresSevenTwelfths ==
    IsExample =>
        /\ HitsIn(TitleSet) = {1, 2}
        /\ HitsIn(AbstractSet) = {1}
        /\ RatEq(scoring.score, <<7, 12>>)

\* C17: for a non-empty token list the score is the sum over the tokens of
\* 3 (in the title set) + 2 (in the authors set) + 1 (in the abstract set),
\* over 6 times the number of tokens, clamped to 1; a missing field is an
\* empty set; the fields are texts of ASCII and NonAscii characters.
C17_ScoreFormula ==
    (Scored /\ scoring.query_tokens # <<>>) =>
        /\ RatEq(scoring.score,
                 RatMin(<<3 * Cardinality(HitsIn(TitleSet))
                          + 2 * Cardinality(HitsIn(AuthorSet))
                          + Cardinality(HitsIn(AbstractSet)),
                          6 * Len(scoring.query_tokens)>>, <<1, 1>>))
        /\ (scoring.paper.title = {} => TitleSet = {})
        /\ (scoring.paper.authors = {} => AuthorSet = {})
        /\ (scoring.paper.abstract = {} => AbstractSet = {})

\* one token in all three fields, one in none, the authors missing
C17_AdditiveHits ==
    /\ Scored
    /\ Len(scoring.query_tokens) = 2
    /\ HitsIn(TitleSet) = {1}
    /\ HitsIn(AbstractSet) = {1}
    /\ scoring.paper.authors = {}
    /\ RatEq(scoring.score, <<4, 12>>)

(***************************************************************************)
(* routers/papers.py: hybrid_search_papers.                                *)
(***************************************************************************)
RECURSIVE GCD(_, _)
GCD(a, b) == IF b = 0 THEN a ELSE GCD(b, a % b)

\* the fraction in lowest terms
RatNorm(x) == LET g == GCD(x[1], x[2]) IN IF g = 0 THEN x ELSE <<x[1] \div g, x[2] \div g>>

RatLt(x, y) == x[1] * y[2] < y[1] * x[2]

(***************************************************************************)
(* Python floats.  A float is a binary64 number: m / 2^s with m below      *)
(* 2^53, written <<m, s>>.  Products of two of them have 106 bits, so m is *)
(* a list of digits in base 2^15, least significant first and no zero at   *)
(* its end.  Every operation gives the float nearest to the exact result,  *)
(* ties to the even m, as IEEE 754 does; the scores are in [0, 1], far     *)
(* from overflow and underflow.                                            *)
(***************************************************************************)
\* the base of the digits
Base == 2^15

RECURSIVE Pow2(_)
Pow2(k) == IF k = 0 THEN 1 ELSE 2 * Pow2(k - 1)

RECURSIVE BitsOf(_)
\* the number of bits of a natural below Base
BitsOf(n) == IF n = 0 THEN 0 ELSE 1 + BitsOf(n \div 2)

RECURSIVE BigOf(_)
\* the digits of a natural
BigOf(n) == IF n = 0 THEN <<>> ELSE <<n % Base>> \o BigOf(n \div Base)

RECURSIVE BigTrim(_)
BigTrim(a) ==
    IF a = <<>> THEN <<>>
    ELSE IF a[Len(a)] = 0 THEN BigTrim(SubSeq(a, 1, Len(a) - 1))
    ELSE a

RECURSIVE BigAddCarry(_, _, _)
BigAddCarry(a, b, carry) ==
    IF a = <<>> /\ b = <<>> THEN (IF carry = 0 THEN <<>> ELSE <<carry>>)
    ELSE LET x == IF a = <<>> THEN 0 ELSE a[1]
             y == IF b = <<>> THEN 0 ELSE b[1]
             t == x + y + carry
         IN  <<t % Base>> \o BigAddCarry(IF a = <<>> THEN a ELSE Tail(a),
                                         IF b = <<>> THEN b ELSE Tail(b), t \div Base)

BigAdd(a, b) == BigAddCarry(a, b, 0)

RECURSIVE BigSubBorrow(_, _, _)
BigSubBorrow(a, b, borrow) ==
    IF a = <<>> THEN <<>>
    ELSE LET y == IF b = <<>> THEN 0 ELSE b[1]
             t == a[1] - y - borrow
         IN  <<IF t < 0 THEN t + Base ELSE t>>
                \o BigSubBorrow(Tail(a), IF b = <<>> THEN b ELSE Tail(b),
                                IF t < 0 THEN 1 ELSE 0)

\* a - b for a >= b
BigSub(a, b) == BigTrim(BigSubBorrow(a, b, 0))

RECURSIVE BigCmp(_, _)
\* -1, 0 or 1 as a is below, equal to or above b
BigCmp(a, b) ==
    IF Len(a) # Len(b) THEN (IF Len(a) < Len(b) THEN -1 ELSE 1)
    ELSE IF a = <<>> THEN 0
    ELSE IF a[Len(a)] # b[Len(b)] THEN (IF a[Len(a)] < b[Len(b)] THEN -1 ELSE 1)
    ELSE BigCmp(SubSeq(a, 1, Len(a) - 1), SubSeq(b, 1, Len(b) - 1))

RECURSIVE BigTimesCarry(_, _, _)
BigTimesCarry(a, k, carry) ==
    IF a = <<>> THEN BigOf(carry)
    ELSE LET t == a[1] * k + carry
         IN  <<t % Base>> \o BigTimesCarry(Tail(a), k, t \div Base)

\* a * k for a natural k below Base
BigTimes(a, k) == BigTrim(BigTimesCarry(a, k, 0))

RECURSIVE BigMul(_, _)
BigMul(a, b) ==
    IF a = <<>> \/ b = <<>> THEN <<>>
    ELSE BigTrim(BigAdd(BigTimes(a, b[1]), <<0>> \o BigMul(a, Tail(b))))

RECURSIVE BigDivMod(_, _)
\* quotient and remainder of a by a natural d, 0 < d <= Base
BigDivMod(a, d) ==
    IF a = <<>> THEN [q |-> <<>>, r |-> 0]
    ELSE LET high == BigDivMod(Tail(a), d)
             t    == high.r * Base + a[1]
         IN  [q |-> <<t \div d>> \o high.q, r |-> t % d]

\* a * 2^n
BigShl(a, n) ==
    IF a = <<>> THEN <<>>
    ELSE [i \in 1 .. (n \div 15) |-> 0] \o BigTimes(a, Pow2(n % 15))

\* a \div 2^n
BigShr(a, n) ==
    IF Len(a) <= n \div 15 THEN <<>>
    ELSE BigTrim(BigDivMod(SubSeq(a, (n \div 15) + 1, Len(a)), Pow2(n % 15)).q)

\* the number of bits of a
BigBits(a) == IF a = <<>> THEN 0 ELSE 15 * (Len(a) - 1) + BitsOf(a[Len(a)])

BigOdd(a) == a # <<>> /\ a[1] % 2 = 1

\* the integer nearest to a / 2^n, ties to even
BigRoundShr(a, n) ==
    IF n = 0 THEN a
    ELSE LET q    == BigShr(a, n)
             rest == BigSub(a, BigShl(q, n))
             half == BigCmp(rest, BigShl(<<1>>, n - 1))
         IN  IF half > 0 \/ (half = 0 /\ BigOdd(q)) THEN BigAdd(q, <<1>>) ELSE q

\* the float nearest to m / 2^s
Float(m, s) ==
    LET over == BigBits(m) - 53
    IN  IF over <= 0 THEN <<m, s>> ELSE <<BigRoundShr(m, over), s - over>>

RECURSIVE Scale(_, _)
\* the least k with n * 2^k >= d, for 0 < n
Scale(n, d) == IF n >= d THEN 0 ELSE 1 + Scale(2 * n, d)

\* the float of the literal or quotient x[1] / x[2], for 0 <= x[1] / x[2] < 2
FloatOf(x) ==
    IF x[1] = 0 THEN <<(<<>>), 0>>
    ELSE LET s  == 52 + Scale(x[1], x[2])
             qr == BigDivMod(BigShl(BigOf(x[1]), s), x[2])
             q  == BigTrim(qr.q)
             up == 2 * qr.r > x[2] \/ (2 * qr.r = x[2] /\ BigOdd(q))
         IN  <<IF up THEN BigAdd(q, <<1>>) ELSE q, s>>

\* a * b
FloatMul(a, b) == Float(BigMul(a[1], b[1]), a[2] + b[2])

\* a + b
FloatAdd(a, b) ==
    LET s == Max(a[2], b[2])
    IN  Float(BigAdd(BigShl(a[1], s - a[2]), BigShl(b[1], s - b[2])), s)

\* a < b
FloatLt(a, b) ==
    LET s == Max(a[2], b[2])
    IN  BigCmp(BigShl(a[1], s - a[2]), BigShl(b[1], s - b[2])) < 0

\* dict.get(key, default)
Get(map, key, default) == IF key \in DOMAIN map THEN map[key] ELSE default

KEYWORD_WEIGHT == <<4, 10>>

SEMANTIC_WEIGHT == <<6, 10>>

\* combined = (KEYWORD_WEIGHT * kw) + (SEMANTIC_WEIGHT * sem), of the floats kw and
\* sem given as the fractions they are nearest to
Combined(kw, sem) ==
    FloatAdd(FloatMul(FloatOf(KEYWORD_WEIGHT), FloatOf(kw)),
             FloatMul(FloatOf(SEMANTIC_WEIGHT), FloatOf(sem)))

\* if combined > 0.01 or kw > 0
Included(combined, kw) == FloatLt(FloatOf(<<1, 100>>), combined) \/ RatLt(<<0, 1>>, kw)

(***************************************************************************)
(* A request of the hybrid search in the running application.  The handler *)
(* is a coroutine on the event loop thread: between two awaits nothing     *)
(* else runs on that thread, and at `await db.execute(stmt)` (line 234)    *)
(* the loop runs other handlers, of which delete_paper calls the vector    *)
(* store.  Beside the loop run the preload thread that lifespan started    *)
(* and a worker thread, on which _embed_paper_background calls add_paper.  *)
(* The calls of the vector store are those of the core, statement by       *)
(* statement.  The database is the environment of the handler: the select  *)
(* returns any rows.  A row is an instance of Paper: it has the columns of *)
(* models/paper.py, of which the model keeps those the scores are computed *)
(* from, and no attribute pdf_data.                                        *)
(***************************************************************************)
MaxPapers == 2

\* the event loop thread
Loop == "t1"

\* the thread lifespan starts on _preload_vector_store
Preloader == "t2"

\* the thread of the pool that runs the background tasks
Worker == "t3"

\* "C x x x x x x": seven tokens, so that a paper with c in its abstract alone
\* has a keyword score above 0 and a relevance score below 0.01
LongQuery == Str(<<"C", " ", "x", " ", "x", " ", "x", " ", "x", " ", "x", " ", "x">>)

\* "", " ", "c" and the long query
RankQueries == {<<>>, Str(<<" ">>), Str(<<"c">>), LongQuery}

\* no field with the token c, c in the title, c in the abstract
RankFields ==
    {[title |-> {}, authors |-> {<<>>}, abstract |-> {}],
     [title |-> {Str(<<"A", "b", " ", "c">>)}, authors |-> {}, abstract |-> {<<>>}],
     [title |-> {}, authors |-> {}, abstract |-> {Str(<<"A", "b", " ", "c">>)}]}

\* the rows of the user's papers, in the order the database returns them
RankPapers ==
    UNION {{[i \in 1 .. k |-> [id |-> i, title |-> f[i].title, authors |-> f[i].authors,
                               abstract |-> f[i].abstract]] : f \in [1 .. k -> RankFields]} :
           k \in 0 .. MaxPapers}

\* the rows [C, A, B] of the example of the ranking order: c in the abstract of
\* C, in the title of A and of B
TieRows ==
    <<[id |-> 1, title |-> {}, authors |-> {}, abstract |-> {Str(<<"A", "b", " ", "c">>)}],
      [id |-> 2, title |-> {Str(<<"A", "b", " ", "c">>)}, authors |-> {}, abstract |-> {<<>>}],
      [id |-> 3, title |-> {Str(<<"A", "b", " ", "c">>)}, authors |-> {}, abstract |-> {<<>>}]>>

\* the rows the select returns to a request: at most one to the long query, at
\* most MaxPapers or those of the example to another
RankRowsOf(query) ==
    IF query = LongQuery THEN {ps \in RankPapers : Len(ps) <= 1}
    ELSE RankPapers \cup {TieRows}

\* the contents _embed_paper_background is given for paper 2: 700 characters b
\* (two chunks, each at a distance above 1 from the query c) and 2000 characters
\* c (five chunks, the last one shorter and nearer to the query c)
RankIndexCalls == {[NoCall EXCEPT !.op = "add_paper", !.paper_id = 2, !.text = x] :
                      x \in {TextTwo, TextFive}}

\* the application has started for the first time, CHROMA_PERSIST_DIR holding no
\* record: lifespan has started the preload thread, which is at its call of
\* init_vector_store; `calls` counts the calls after startup
InitRank ==
    /\ store = <<>>
    /\ _client = None
    /\ _collection = None
    /\ created = [client |-> 0, collection |-> 0]
    /\ pc = [t \in Threads |-> IF t = Preloader THEN "init_check" ELSE "idle"]
    /\ call = [t \in Threads |->
                 IF t = Preloader THEN [NoCall EXCEPT !.op = "preload"] ELSE NoCall]
    /\ loc = [t \in Threads |-> NoLocals]
    /\ overlapped = [t \in Threads |-> FALSE]
    /\ returned = NoReturn
    /\ calls = 0
    /\ faults = 0
    /\ prev = [d \in Docs |-> NoPass]
    /\ chunking = NotFollowed
    /\ scoring = NotFollowed
    /\ ranking = NotFollowed

\* the request has ended
RankOver == ranking.pc \in {"done", "raised"}

\* the event loop thread is in no call of the vector store
LoopIdle == pc[Loop] = "idle"

\* the event loop is between two handlers or stretches of a handler: the request
\* has not arrived, waits for its select, or has ended
LoopFree == LoopIdle /\ ranking.pc \in {"none", "select", "done", "raised"}

\* a call beside the request starts: one call is kept for the request, and the
\* behaviour is followed until the request has ended
Beside == calls < MaxCalls - 1 /\ ~RankOver

\* a statement of the handler, on the event loop thread: no call of the core
\* ends in it
Handled ==
    /\ LoopIdle
    /\ returned' = NoReturn
    /\ UNCHANGED <<store, _client, _collection, created, pc, call, loc, overlapped,
                   calls, faults, prev, chunking, scoring>>

\* _embed_paper_background runs on the worker thread: vector_store.add_paper
RankIndex ==
    /\ Beside
    /\ \E c \in RankIndexCalls : StartCall(Worker, c)

\* the handler delete_paper runs on the event loop, its row found, up to its
\* call vector_store.delete_paper(paper.id) of line 657
RankDelete ==
    /\ Beside
    /\ LoopFree
    /\ \E c \in DeleteCalls : StartCall(Loop, c)

\* the request arrives with its query
RankArrive ==
    /\ ranking = NotFollowed
    /\ \E query \in RankQueries :
          ranking' = [pc |-> "call", query |-> query, papers |-> <<>>, query_tokens |-> <<>>,
                      keyword_scores |-> <<>>, semantic_scores |-> <<>>, degraded |-> "no",
                      queried |-> [store |-> <<>>, n |-> 0],
                      rows |-> <<>>, scored_papers |-> <<>>, status |-> 0, error |-> "none"]
    /\ Handled

BlankQuery(query) == query = <<>> \/ Strip(query) = <<>>

\* if not query or not query.strip(): raise HTTPException(400)
RankReject ==
    /\ ranking.pc = "call"
    /\ BlankQuery(ranking.query)
    /\ ranking' = [ranking EXCEPT !.pc = "raised", !.status = 400, !.error = "HTTPException"]
    /\ Handled

\* stmt = select(Paper)...; result = await db.execute(stmt): the coroutine is
\* suspended
RankSelect ==
    /\ ranking.pc = "call"
    /\ ~BlankQuery(ranking.query)
    /\ ranking' = [ranking EXCEPT !.pc = "select"]
    /\ Handled

\* the coroutine is resumed with the result: papers = result.scalars().all()
RankRows ==
    /\ ranking.pc = "select"
    /\ \E ps \in RankRowsOf(ranking.query) :
          ranking' = [ranking EXCEPT !.pc = "rows", !.papers = ps]
    /\ Handled

\* if not papers: return {"papers": []}
RankNoPapers ==
    /\ ranking.pc = "rows"
    /\ ranking.papers = <<>>
    /\ ranking' = [ranking EXCEPT !.pc = "done", !.status = 200]
    /\ Handled

\* query_tokens = _tokenize(query) and the keyword score of every paper
RankKeyword ==
    /\ ranking.pc = "rows"
    /\ ranking.papers # <<>>
    /\ LET query_tokens == _tokenize(ranking.query)
       IN  ranking' = [ranking EXCEPT
                !.pc = "semantic",
                !.query_tokens = query_tokens,
                !.keyword_scores = [i \in {ranking.papers[k].id : k \in 1 .. Len(ranking.papers)} |->
                    _keyword_score(query_tokens,
                        ranking.papers[CHOOSE k \in 1 .. Len(ranking.papers) :
                                          ranking.papers[k].id = i])]]
    /\ Handled

\* paper_ids = [p.id for p in papers]
RankPaperIds == [k \in 1 .. Len(ranking.papers) |-> ranking.papers[k].id]

\* vector_store.semantic_search_all(query, paper_ids, n_results=100) is called
RankSemantic ==
    /\ ranking.pc = "semantic"
    /\ StartCallStmt(Loop, [NoCall EXCEPT !.op = "semantic_search_all", !.ids = RankPaperIds,
                                          !.query = ranking.query, !.n = 100])
    /\ ranking' = [ranking EXCEPT !.pc = "searching"]
    /\ UNCHANGED <<chunking, scoring>>

\* the statement of semantic_search_all does not end the call
Continues == ranking.pc = "searching" => returned'.how = "none"

\* the statements of init_vector_store, delete_paper and semantic_search_all on
\* the event loop thread that leave the request where it is
RankLoop ==
    \/ InitCheck(Loop)
    \/ InitClient(Loop) /\ Continues
    \/ InitCollection(Loop) /\ Continues
    \/ InitCount(Loop) /\ Continues
    \/ DelGet(Loop)
    \/ DelDelete(Loop)
    \/ SsCount(Loop) /\ Continues

\* semantic_scores = the dict semantic_search_all returns, which is {} when the
\* collection is empty and when it swallowed a failure of its own; `queried`
\* remembers the collection and the n_results of the statement that returned
RankSemanticReturns ==
    /\ ranking.pc = "searching"
    /\ SsCountStmt(Loop) \/ SsQueryStmt(Loop)
    /\ returned'.how = "returned"
    /\ ranking' = [ranking EXCEPT
            !.pc = "combine", !.semantic_scores = returned'.value,
            !.degraded = IF returned'.failed THEN "swallowed" ELSE "no",
            !.queried = [store |-> store, n |-> SafeN(call[Loop].n, loc[Loop].available)]]
    /\ UNCHANGED <<chunking, scoring>>

\* init_vector_store raises through _get_collection and semantic_search_all;
\* except Exception: semantic_scores stays {}
RankSemanticRaises ==
    /\ ranking.pc = "searching"
    /\ InitClientStmt(Loop) \/ InitCollectionStmt(Loop) \/ InitCountStmt(Loop)
    /\ returned'.how = "raised"
    /\ ranking' = [ranking EXCEPT !.pc = "combine", !.semantic_scores = <<>>,
                                  !.degraded = "raised"]
    /\ UNCHANGED <<chunking, scoring>>

\* One round of `for p in papers`: kw, sem (the similarity, kept in hundredths by
\* the core), combined and the test.  For a row that passes the test the dict to
\* append is evaluated entry by entry; "has_pdf": bool(p.pdf_data) comes before the
\* three scores and raises AttributeError, a Paper having no pdf_data: the
\* exception leaves the handler and nothing is appended.
RankRow ==
    /\ ranking.pc = "combine"
    /\ Len(ranking.rows) < Len(ranking.papers)
    /\ LET p   == ranking.papers[Len(ranking.rows) + 1]
           kw  == Get(ranking.keyword_scores, p.id, <<0, 1>>)
           sem == <<Get(ranking.semantic_scores, p.id, 0), 100>>
       IN  \E combined \in {Combined(kw, sem)} :
           \E raises \in {Included(combined, kw)} :
              ranking' = [ranking EXCEPT
                  !.rows   = Append(@, [id |-> p.id, kw |-> kw, sem |-> sem,
                                        combined |-> combined]),
                  !.pc     = IF raises THEN "raised" ELSE @,
                  !.status = IF raises THEN 500 ELSE @,
                  !.error  = IF raises THEN "AttributeError" ELSE @]
    /\ Handled

\* the loop is over with scored_papers still []: the sort, and
\* return {"papers": scored_papers}
RankSort ==
    /\ ranking.pc = "combine"
    /\ Len(ranking.rows) = Len(ranking.papers)
    /\ ranking' = [ranking EXCEPT !.pc = "done", !.status = 200]
    /\ Handled

\* the statements of _preload_vector_store on its thread
RankPreload ==
    \/ InitCheck(Preloader) \/ InitClient(Preloader) \/ InitCollection(Preloader)
    \/ InitCount(Preloader) \/ PreloadEnd(Preloader)

\* the statements of add_paper on the worker thread
RankWorker ==
    \/ InitCheck(Worker) \/ InitClient(Worker) \/ InitCollection(Worker) \/ InitCount(Worker)
    \/ AddChunk(Worker) \/ AddGet(Worker) \/ AddDelete(Worker) \/ AddUpsert(Worker)

NextRank ==
    \/ RankPreload
    \/ RankIndex
    \/ RankWorker
    \/ RankDelete
    \/ RankLoop
    \/ RankArrive
    \/ RankReject
    \/ RankSelect
    \/ RankRows
    \/ RankNoPapers
    \/ RankKeyword
    \/ RankSemantic
    \/ RankSemanticReturns
    \/ RankSemanticRaises
    \/ RankRow
    \/ RankSort

SpecRank == InitRank /\ [][NextRank]_vars

(***************************************************************************)
(* Properties of the hybrid search.  kw, sem and relevance are the scores  *)
(* of a candidate as exact fractions.                                      *)
(***************************************************************************)
\* a search over candidates has ended
Searched == RankOver /\ ranking.status # 400 /\ ranking.papers # <<>>

PaperIds == {ranking.papers[k].id : k \in 1 .. Len(ranking.papers)}

\* the position of a paper among the candidates
PaperAt(id) == CHOOSE k \in 1 .. Len(ranking.papers) : ranking.papers[k].id = id

KwOf(id) == _keyword_score(ranking.query_tokens, ranking.papers[PaperAt(id)])

SemOf(id) ==
    IF id \in DOMAIN ranking.semantic_scores
    THEN <<ranking.semantic_scores[id], 100>> ELSE <<0, 1>>

\* 0.4 * kw + 0.6 * sem, in lowest terms
WeightedSum(kw, sem) ==
    RatNorm(RatAdd(RatNorm(RatMul(<<4, 10>>, kw)), RatNorm(RatMul(<<6, 10>>, sem))))

RelevanceOf(id) == WeightedSum(KwOf(id), SemOf(id))

\* the candidates the inclusion rule lets in
IncludedIds ==
    {id \in PaperIds : RatLt(<<1, 100>>, RelevanceOf(id)) \/ RatLt(<<0, 1>>, KwOf(id))}

\* the ids of the result, in its order
ResultList == [j \in 1 .. Len(ranking.scored_papers) |-> ranking.scored_papers[j].id]

ResultIds == Range(ResultList)

\* C11: a search over candidates ends with a result, and a candidate is in the
\* result if and only if its relevance score is above 0.01 or its keyword score
\* is above 0.
C11_InclusionRule ==
    Searched =>
        /\ ranking.pc = "done"
        /\ \A id \in PaperIds : id \in ResultIds <=> id \in IncludedIds

RECURSIVE StableDescending(_)
\* the ids of S by non-increasing relevance, ids of equal relevance in the order
\* of the candidates
StableDescending(S) ==
    IF S = {} THEN <<>>
    ELSE LET first == CHOOSE a \in S : \A b \in S \ {a} :
                         \/ RatLt(RelevanceOf(b), RelevanceOf(a))
                         \/ (RatEq(RelevanceOf(a), RelevanceOf(b)) /\ PaperAt(a) < PaperAt(b))
         IN  <<first>> \o StableDescending(S \ {first})

\* C12: a search over candidates yields them in non-increasing order of
\* relevance, candidates of equal relevance in the order they were supplied in:
\* [C, A, B] with A and B of equal relevance above that of C yields [A, B, C].
C12_StableDescendingOrder ==
    Searched =>
        /\ ranking.pc = "done"
        /\ ResultList = StableDescending(IncludedIds)

Degraded == ranking.degraded # "no"

\* C13: when semantic_search_all raises (the collection cannot be initialised) or
\* swallows a failure of its query, the request still completes without error and
\* returns exactly the papers of keyword score above 0, each with semantic_score
\* 0.0 and relevance_score 0.4 times its keyword_score.
C13_DegradedKeywordOnly ==
    (RankOver /\ Degraded) =>
        /\ ranking.pc = "done"
        /\ ResultIds = {id \in PaperIds : RatLt(<<0, 1>>, KwOf(id))}
        /\ \A j \in 1 .. Len(ranking.scored_papers) :
              LET row == ranking.scored_papers[j]
              IN  /\ RatEq(row.semantic_score, <<0, 1>>)
                  /\ RatEq(row.relevance_score, RatMul(<<4, 10>>, row.keyword_score))

\* semantic_search_all has returned its dict to the request without a failure
SemanticAnswered ==
    /\ ranking.pc \in {"combine", "done", "raised"}
    /\ ranking.status # 400
    /\ ranking.papers # <<>>
    /\ ranking.degraded = "no"

\* the rows of the one filtered query of semantic_search_all
\* the collection as the statement that ended semantic_search_all read it
Queried == ranking.queried.store

SearchRows ==
    CollQuery(Queried, ranking.query, ranking.queried.n,
              PapersFilter(RankPaperIds))

\* C29: the dict semantic_search_all returns from its one filtered query has an
\* entry for exactly the papers with a row in the result of the query; the entry
\* of a paper is the largest max(0, 1 - distance) among its rows and lies in
\* [0, 1]; a paper without records at that query has no entry; and the semantic score
\* hybrid_search_papers computes for a paper is its entry, 0.0 when it has none,
\* so 0.0 for a paper without records.
C29_BestSimilarityPerPaper ==
    /\ SemanticAnswered =>
          LET best    == ranking.semantic_scores
              of(d)   == {j \in 1 .. Len(SearchRows) :
                             Queried[SearchRows[j]].metadata.paper_id = d}
              sims(d) == {SimilarityTo(ranking.query, Queried[SearchRows[j]]) : j \in of(d)}
          IN  /\ DOMAIN best = {d \in PaperIds : of(d) # {}}
              /\ \A d \in DOMAIN best :
                    /\ best[d] \in sims(d)
                    /\ \A x \in sims(d) : x <= best[d]
                    /\ 0 <= best[d] /\ best[d] <= 100
              /\ \A d \in PaperIds : CollGet(Queried, WhereEq(d)) = {} => d \notin DOMAIN best
    /\ ranking.pc \in {"combine", "done", "raised"} =>
          \A j \in 1 .. Len(ranking.rows) :
             LET row == ranking.rows[j]
             IN  /\ row.id \in DOMAIN ranking.semantic_scores
                        => row.sem = <<ranking.semantic_scores[row.id], 100>>
                 /\ row.id \notin DOMAIN ranking.semantic_scores => RatEq(row.sem, <<0, 1>>)
                 /\ CollGet(Queried, WhereEq(row.id)) = {}
                        => (row.id \notin DOMAIN ranking.semantic_scores
                            /\ RatEq(row.sem, <<0, 1>>))

\* the loop has computed the scores of two papers: the first has no record, no
\* entry and semantic score 0.0; the second has chunks at different distances in
\* the result of the query, and its semantic score is the similarity of the nearer
C29_BestOfTwoAndNoEntry ==
    /\ SemanticAnswered
    /\ Len(ranking.rows) = 2
    /\ LET none == ranking.rows[1]
           some == ranking.rows[2]
       IN  /\ CollGet(Queried, WhereEq(none.id)) = {}
           /\ none.id \notin DOMAIN ranking.semantic_scores
           /\ RatEq(none.sem, <<0, 1>>)
           /\ \E a, b \in CollGet(Queried, WhereEq(some.id)) :
                 /\ SimilarityTo(ranking.query, Queried[a]) < SimilarityTo(ranking.query, Queried[b])
                 /\ ranking.semantic_scores[some.id] = SimilarityTo(ranking.query, Queried[b])
                 /\ some.sem = <<SimilarityTo(ranking.query, Queried[b]), 100>>

====
